---- MODULE Spec2Model ----
(***************************************************************************)
(* A model of the yt-transcriber core: the caption extractor's bounded     *)
(* subprocess pool, the filesystem cache with its write-then-rename        *)
(* discipline and key validation, and the summarizer with its output       *)
(* extraction and injection screening, the GET /transcript handler that   *)
(* ties them together, and the WebVTT parser.                              *)
(*                                                                         *)
(* Each component has its own specification over the shared variables:     *)
(*   SpecExtract   extract_subtitles calls sharing the semaphore           *)
(*   SpecAtomic    one cache writer at a time, interruptible at each step  *)
(*   SpecConc      several cache writers with interleaved steps            *)
(*   SpecKeys      cache operations on valid and invalid keys              *)
(*   SpecPaths     two cache writers on every pair of valid keys           *)
(*   SpecCorrupt   cache reads of files with arbitrary content             *)
(*   SpecClear     cache entries of two videos written and cleared         *)
(*   SpecRequest   transcript requests for one video in any language       *)
(*   SpecResolve   transcript requests with urls of every shape            *)
(*   SpecPool      summarize calls and extractions side by side            *)
(*   SpecSumm      one summarize call from its arguments to its result     *)
(*   SpecSummaryReq  requests with and without the summary parameter       *)
(*   SpecCancel    both pools with callers that may be cancelled           *)
(*   SpecLive      either pool under a fair scheduler                      *)
(*   SpecVtt       parse_vtt on subtitle files of a few lines              *)
(***************************************************************************)
EXTENDS Integers, Sequences, FiniteSets, TLC

VARIABLES
    \* ---- SubtitleExtractor ----
    pc,           \* per call: position in extract_subtitles
    url,          \* per call: whether _extract_video_id accepts the url argument
    sem,          \* asyncio.Semaphore._value of the extractor
    waiters,      \* asyncio.Semaphore._waiters, FIFO
    proc,         \* per call: state of the yt-dlp subprocess
    exitInfo,     \* per call: what the subprocess left behind when it exited
    tmpdir,       \* per call: whether the TemporaryDirectory exists
    waitOutcome,  \* per call: how wait_for(process.communicate()) ended
    result,       \* per call: what extract_subtitles returned or raised
    \* ---- CacheManager and the cache directory ----
    cacheEnabled,    \* config.CACHE_ENABLED (self.enabled)
    summaryEnabled,  \* config.SUMMARY_CACHE_ENABLED
    rootExists,      \* whether the cache directory exists
    dir,             \* the cache directory: file name -> inode
    inodes,          \* inode -> file content, a sequence of written chunks
    wr,              \* per writer: the set / set_summary call in progress
    committed,       \* file name -> the document of the last completed rename
    lastOp,          \* the cache operation that ended last, with its outcome
    touched,         \* whether a filesystem call was made outside the cache root
    nops,            \* number of cache operations started
    \* ---- Summarizer ----
    spc,          \* position of the summarize call
    slen,         \* its summary_length argument
    sfile,        \* whether the temporary transcript file exists
    csem,         \* asyncio.Semaphore._value of the summarizer
    tool,         \* state of the Copilot CLI subprocess
    rc,           \* its exit code
    stdout,       \* what it has written to its standard output
    nfrags,       \* in how many writes
    sres,         \* what summarize returned or raised
    smsg,         \* the message of the exception _execute_copilot raised
    \* ---- GET /transcript ----
    req,          \* per request: its arguments, its position and its response
    \* ---- concurrent summarize calls ----
    kpc,          \* per call: position in _execute_copilot
    kwait,        \* asyncio.Semaphore._waiters of the summarizer, FIFO
    ktool,        \* per call: state of its Copilot CLI subprocess
    \* ---- parse_vtt ----
    vtt,          \* the lines of the subtitle file
    parsed        \* what parse_vtt returned or raised for them

extractVars == <<pc, url, sem, waiters, proc, exitInfo, tmpdir, waitOutcome, result>>

cacheVars ==
    <<cacheEnabled, summaryEnabled, rootExists, dir, inodes, wr, committed, lastOp, touched,
      nops>>

summVars == <<spc, slen, sfile, csem, tool, rc, stdout, nfrags, sres, smsg>>

reqVars == <<req>>

vttVars == <<vtt, parsed>>

poolVars == <<kpc, kwait, ktool>>

vars == <<extractVars, cacheVars, summVars, reqVars, poolVars, vttVars>>

(***************************************************************************)
(* Bounds and program constants                                            *)
(***************************************************************************)
NumCalls == 3

NumWriters == 2

MaxSets == 2

MaxFrags == 3

NumReqs == 2

NumSumm == 2

MAX_CONCURRENT_PROCESSES == 2

MAX_CONCURRENT_COPILOT == 1

MAX_WORDS == 1000

Calls == 1..NumCalls

(***************************************************************************)
(* SubtitleExtractor                                                       *)
(***************************************************************************)

\* A subprocess that has been spawned and has not exited yet.  A killed
\* process has been sent SIGKILL and still exists until it has died.
Live(c) == proc[c] \in {"running", "killed"}

\* The calls inside `async with self._semaphore`.
HoldsSlot(c) == pc[c] \in {"acquired", "spawn", "communicate", "reaping"}

NoExit == [rc |-> -1, noSubsInStderr |-> FALSE, vtt |-> "none"]

\* stderr is inspected only after a non-zero exit, the files only after exit 0.
ExitInfos ==
    [rc : {1}, noSubsInStderr : BOOLEAN, vtt : {"none"}]
      \cup [rc : {0}, noSubsInStderr : {FALSE}, vtt : {"none", "cues", "nocues"}]

InitExtract ==
    /\ pc = [c \in Calls |-> "idle"]
    /\ url = [c \in Calls |-> "valid"]
    /\ sem = MAX_CONCURRENT_PROCESSES
    /\ waiters = <<>>
    /\ proc = [c \in Calls |-> "none"]
    /\ exitInfo = [c \in Calls |-> NoExit]
    /\ tmpdir = [c \in Calls |-> FALSE]
    /\ waitOutcome = [c \in Calls |-> "none"]
    /\ result = [c \in Calls |-> "none"]

\* A semaphore that lets every caller in.
SemLockedNever == FALSE

\* asyncio.Semaphore.locked(): no free slot, or somebody is already queued.
SemLocked == sem = 0 \/ waiters # <<>>

\* `async with self._semaphore`: take a slot at once or queue for one.
Call(c, u) ==
    /\ pc[c] = "idle"
    /\ url' = [url EXCEPT ![c] = u]
    /\ IF SemLocked
         THEN /\ waiters' = Append(waiters, c)
              /\ pc' = [pc EXCEPT ![c] = "waiting"]
              /\ sem' = sem
         ELSE /\ sem' = sem - 1
              /\ pc' = [pc EXCEPT ![c] = "acquired"]
              /\ waiters' = waiters
    /\ UNCHANGED <<proc, exitInfo, tmpdir, waitOutcome, result>>
    /\ UNCHANGED <<cacheVars, summVars, reqVars, poolVars, vttVars>>

\* An exit that forgets the slot and the directory.
LeaveHolding(c, res) ==
    /\ result' = [result EXCEPT ![c] = res]
    /\ pc' = [pc EXCEPT ![c] = "done"]
    /\ UNCHANGED <<tmpdir, sem, waiters>>

\* Leaving the `with TemporaryDirectory()` block and then the `async with`
\* block, on a return or on an exception: the directory is removed and the
\* slot is released.  Semaphore.release() increments the value and wakes the
\* first waiter, which takes the slot at once.
Leave(c, res) ==
    /\ result' = [result EXCEPT ![c] = res]
    /\ tmpdir' = [tmpdir EXCEPT ![c] = FALSE]
    /\ IF waiters # <<>>
         THEN /\ waiters' = Tail(waiters)
              /\ sem' = sem
              /\ pc' = [pc EXCEPT ![c] = "done", ![Head(waiters)] = "acquired"]
         ELSE /\ sem' = sem + 1
              /\ waiters' = waiters
              /\ pc' = [pc EXCEPT ![c] = "done"]

\* The body up to the first await: _extract_video_id, which raises
\* InvalidURLError inside the semaphore block, then the temporary directory.
Enter(c) ==
    /\ pc[c] = "acquired"
    /\ UNCHANGED <<cacheVars, summVars, reqVars, poolVars, vttVars>>
    /\ IF url[c] = "invalid"
         THEN /\ Leave(c, "InvalidURLError")
              /\ UNCHANGED <<url, proc, exitInfo, waitOutcome>>
         ELSE /\ tmpdir' = [tmpdir EXCEPT ![c] = TRUE]
              /\ pc' = [pc EXCEPT ![c] = "spawn"]
              /\ UNCHANGED <<url, sem, waiters, proc, exitInfo, waitOutcome, result>>

\* await asyncio.create_subprocess_exec(...): the process starts, or the
\* call raises and `except Exception` turns that into SubtitleExtractionError.
Spawn(c, started) ==
    /\ pc[c] = "spawn"
    /\ UNCHANGED <<cacheVars, summVars, reqVars, poolVars, vttVars>>
    /\ IF started
         THEN /\ proc' = [proc EXCEPT ![c] = "running"]
              /\ pc' = [pc EXCEPT ![c] = "communicate"]
              /\ UNCHANGED <<url, sem, waiters, exitInfo, tmpdir, waitOutcome, result>>
         ELSE /\ Leave(c, "SubtitleExtractionError")
              /\ UNCHANGED <<url, proc, exitInfo, waitOutcome>>

\* The downloader exits by itself, with some exit code, stderr and files.
ProcExit(c, info) ==
    /\ proc[c] = "running"
    /\ proc' = [proc EXCEPT ![c] = "exited"]
    /\ exitInfo' = [exitInfo EXCEPT ![c] = info]
    /\ UNCHANGED <<pc, url, sem, waiters, tmpdir, waitOutcome, result>>
    /\ UNCHANGED <<cacheVars, summVars, reqVars, poolVars, vttVars>>

\* A process that was sent SIGKILL dies.
ProcDies(c) ==
    /\ proc[c] = "killed"
    /\ proc' = [proc EXCEPT ![c] = "exited"]
    /\ UNCHANGED <<pc, url, sem, waiters, exitInfo, tmpdir, waitOutcome, result>>
    /\ UNCHANGED <<cacheVars, summVars, reqVars, poolVars, vttVars>>

\* What the code makes of an exited process (lines 136-168).  A ValueError
\* of parse_vtt is caught by `except Exception`.
Outcome(info) ==
    IF info.rc # 0
      THEN IF info.noSubsInStderr THEN "NoSubtitlesFoundError"
                                  ELSE "SubtitleExtractionError"
      ELSE CASE info.vtt = "none"   -> "NoSubtitlesFoundError"
             [] info.vtt = "nocues" -> "SubtitleExtractionError"
             [] OTHER               -> "ok"

\* process.communicate() returns within the timeout.
CommunicateReturns(c) ==
    /\ pc[c] = "communicate"
    /\ proc[c] = "exited"
    /\ waitOutcome' = [waitOutcome EXCEPT ![c] = "returned"]
    /\ Leave(c, Outcome(exitInfo[c]))
    /\ UNCHANGED <<url, proc, exitInfo>>
    /\ UNCHANGED <<cacheVars, summVars, reqVars, poolVars, vttVars>>

\* A handler without process.kill().
KillSkipped(c) == proc

\* process.kill() in the asyncio.TimeoutError handler.
Kill(c) == [proc EXCEPT ![c] = IF @ = "running" THEN "killed" ELSE @]

\* asyncio.wait_for gives up after YTDLP_TIMEOUT: the handler kills the
\* process and awaits process.wait().
TimeoutFires(c) ==
    /\ pc[c] = "communicate"
    /\ waitOutcome' = [waitOutcome EXCEPT ![c] = "timeout"]
    /\ proc' = Kill(c)
    /\ pc' = [pc EXCEPT ![c] = "reaping"]
    /\ UNCHANGED <<url, sem, waiters, exitInfo, tmpdir, result>>
    /\ UNCHANGED <<cacheVars, summVars, reqVars, poolVars, vttVars>>

\* `await process.wait()` returns once the process has exited.
Reaped(c) == proc[c] = "exited"

\* The handler raises the extractor's TimeoutError, which is re-raised.
WaitReturns(c) ==
    /\ pc[c] = "reaping"
    /\ Reaped(c)
    /\ Leave(c, "TimeoutError")
    /\ UNCHANGED <<url, proc, exitInfo, waitOutcome>>
    /\ UNCHANGED <<cacheVars, summVars, reqVars, poolVars, vttVars>>

\* The caller's task is cancelled while the call awaits the process (in
\* wait_for(process.communicate()) or in process.wait()).  CancelledError is
\* no asyncio.TimeoutError and no Exception: no handler runs, the two
\* with-blocks are left, and nothing signals the process.
Cancel(c) ==
    /\ pc[c] \in {"communicate", "reaping"}
    /\ Leave(c, "CancelledError")
    /\ UNCHANGED <<url, proc, exitInfo, waitOutcome>>
    /\ UNCHANGED <<cacheVars, summVars, reqVars, poolVars, vttVars>>

(***************************************************************************)
(* CacheManager: key validation and path derivation                        *)
(*                                                                         *)
(* A string is a sequence of characters.  The suffixes ".json" and ".tmp"  *)
(* and the infix "_summary_" are written as one element each.              *)
(***************************************************************************)
VIDEO_ID_LEN == 11

NL == "\n"

LowerCh == {"a", "c", "e", "n", "p", "t", "x"}

UpperCh == {"A", "B", "R"}

DigitCh == {"0", "9"}

IdChars == LowerCh \cup UpperCh \cup DigitCh \cup {"_", "-"}

AllOf(s, from, to, set) == \A i \in from..to : s[i] \in set

\* Python's `$` after k matched characters: the end of the string, or the
\* position just before a newline that ends the string.
AtDollar(s, k) == k = Len(s) \/ (k = Len(s) - 1 /\ s[Len(s)] = NL)

\* re.match(r'^[a-zA-Z0-9_-]{11}$', video_id)
MatchVideoId(s) ==
    /\ Len(s) >= VIDEO_ID_LEN
    /\ AllOf(s, 1, VIDEO_ID_LEN, IdChars)
    /\ AtDollar(s, VIDEO_ID_LEN)

\* re.match(r'^[a-z]{2,3}(-[A-Za-z]{2,4})?$', language)
MatchLanguage(s) ==
    \E b \in 2..3 :
        /\ Len(s) >= b
        /\ AllOf(s, 1, b, LowerCh)
        /\ \/ AtDollar(s, b)
           \/ \E r \in 2..4 :
                 /\ Len(s) >= b + 1 + r
                 /\ s[b + 1] = "-"
                 /\ AllOf(s, b + 2, b + 1 + r, LowerCh \cup UpperCh)
                 /\ AtDollar(s, b + 1 + r)

SummaryLengths == {"short", "medium", "long"}

\* _validate_cache_params: TRUE when it raises ValueError.
ValidateCacheParamsRaises(vid, lang) == ~MatchVideoId(vid) \/ ~MatchLanguage(lang)

CacheFileName(vid, lang) == vid \o <<"_">> \o lang \o <<".json">>

\* A summary file name that leaves the length out.
SummaryFileNameNoLength(vid, lang, len) ==
    vid \o <<"_">> \o lang \o <<"_summary", ".json">>

SummaryFileName(vid, lang, len) == vid \o <<"_">> \o lang \o <<"_summary_", len, ".json">>

\* cache_path.resolve().is_relative_to(cache_dir.resolve()) for
\* cache_dir / name: the components of name never climb above cache_dir.
Climb(d, comp) ==
    IF comp = <<".", ".">> THEN d - 1
    ELSE IF comp = <<>> \/ comp = <<".">> THEN d
    ELSE d + 1

RECURSIVE StaysBelow(_, _, _, _)
StaysBelow(name, i, d, comp) ==
    IF d < 0 THEN FALSE
    ELSE IF i > Len(name) THEN Climb(d, comp) >= 0
    ELSE IF name[i] = "/" THEN StaysBelow(name, i + 1, Climb(d, comp), <<>>)
    ELSE StaysBelow(name, i + 1, d, Append(comp, name[i]))

InsideRoot(name) == name # <<>> /\ name[1] # "/" /\ StaysBelow(name, 1, 0, <<>>)

\* _get_cache_path: the file name, or ValueError.
GetCachePath(vid, lang) ==
    IF ValidateCacheParamsRaises(vid, lang) \/ ~InsideRoot(CacheFileName(vid, lang))
      THEN [err |-> "ValueError", name |-> <<>>]
      ELSE [err |-> "", name |-> CacheFileName(vid, lang)]

\* _get_summary_cache_path: the file name, or ValueError.
GetSummaryCachePath(vid, lang, len) ==
    IF \/ ValidateCacheParamsRaises(vid, lang)
       \/ len \notin SummaryLengths
       \/ ~InsideRoot(SummaryFileName(vid, lang, len))
      THEN [err |-> "ValueError", name |-> <<>>]
      ELSE [err |-> "", name |-> SummaryFileName(vid, lang, len)]

\* A writer that writes to the cache path itself.
TempPathInPlace(name) == name

\* cache_path.with_suffix('.tmp'): every cache file name ends in ".json".
TempPath(name) == SubSeq(name, 1, Len(name) - 1) \o <<".tmp">>

(***************************************************************************)
(* CacheManager: documents and files                                       *)
(*                                                                         *)
(* A document is what json.dump writes or what somebody else left in a     *)
(* cache file.  A file holds the chunks written so far; json.load accepts  *)
(* exactly the complete chunk sequence of one JSON document.               *)
(***************************************************************************)
Seg(k, st, en, tx) == [k |-> k, start |-> st, end |-> en, text |-> tx]

\* The dict that set builds (lines 115-120).
TranscriptDoc(vid, lang, gen, segs) ==
    [top |-> "dict", vid |-> vid, lang |-> lang, segsKind |-> "list", segs |-> segs,
     gen |-> IF gen THEN "true" ELSE "false", sumKind |-> "absent", sum |-> "",
     len |-> ""]

\* The dict that set_summary builds (lines 185-193); generated_at and model
\* are written and never read.
SummaryDoc(vid, lang, len, text, gen) ==
    [top |-> "dict", vid |-> vid, lang |-> lang, segsKind |-> "absent", segs |-> <<>>,
     gen |-> IF gen THEN "true" ELSE "false", sumKind |-> "string", sum |-> text,
     len |-> len]

\* Bytes that no writer wrote: a hole left by a write behind the end of a
\* truncated file.
HoleDoc ==
    [top |-> "garbage", vid |-> <<>>, lang |-> <<>>, segsKind |-> "absent",
     segs |-> <<>>, gen |-> "absent", sumKind |-> "absent", sum |-> "", len |-> ""]

\* json.dump(data, f, indent=2) reaches the file in buffer-sized writes: the
\* more segments, the more writes.
NChunks(doc) == 1 + Len(doc.segs)

Chunk(doc, i) == [doc |-> doc, i |-> i]

Dump(doc) == [i \in 1..NChunks(doc) |-> Chunk(doc, i)]

\* A write of one chunk at file offset off (in chunks).
WriteAt(content, off, chunk) ==
    [j \in 1..(IF Len(content) > off + 1 THEN Len(content) ELSE off + 1) |->
        IF j = off + 1 THEN chunk
        ELSE IF j <= Len(content) THEN content[j]
        ELSE Chunk(HoleDoc, 0)]

\* f.read() inside json.load, then the parse.
JsonLoad(content) ==
    IF content # <<>> /\ content[1].doc.top = "badutf8" /\ content = Dump(content[1].doc)
      THEN [exc |-> "UnicodeDecodeError", doc |-> HoleDoc]
    ELSE IF content # <<>> /\ content[1].doc.top # "garbage"
            /\ content = Dump(content[1].doc)
      THEN [exc |-> "", doc |-> content[1].doc]
    ELSE [exc |-> "JSONDecodeError", doc |-> HoleDoc]

Res(kind, exc, segs, gen, text) ==
    [kind |-> kind, exc |-> exc, segs |-> segs, gen |-> gen, text |-> text]

Miss == Res("miss", "", <<>>, FALSE, "")

Raise(exc) == Res("raise", exc, <<>>, FALSE, "")

Returned == Res("returned", "", <<>>, FALSE, "")

Hit(doc) == Res("hit", "", doc.segs, doc.gen = "true", "")

HitSummary(doc) == Res("hit", "", <<>>, FALSE, doc.sum)

\* The exceptions that get and get_summary turn into a miss (lines 95, 162).
CaughtOnRead == {"JSONDecodeError", "KeyError", "IOError"}

\* [TranscriptSegment(**seg) for seg in data['segments']]: the exception of
\* the first entry that is no dict or fails validation, "" when none does.
RECURSIVE SegmentsExc(_, _)
SegmentsExc(segs, i) ==
    IF i > Len(segs) THEN ""
    ELSE IF segs[i].k = "not_dict" THEN "TypeError"
    ELSE IF segs[i].k # "ok" THEN "ValidationError"
    ELSE SegmentsExc(segs, i + 1)

\* The try block of get (lines 85-93): the exception it runs into, "" when
\* it reaches the return.
ReadTranscriptExc(content) ==
    LET j == JsonLoad(content) IN
    IF j.exc # "" THEN j.exc
    ELSE IF j.doc.top # "dict" THEN "TypeError"
    ELSE IF j.doc.segsKind = "absent" THEN "KeyError"
    ELSE IF j.doc.segsKind # "list" THEN "TypeError"
    ELSE SegmentsExc(j.doc.segs, 1)

\* get, from the opening of an existing file on.
ReadTranscript(content) ==
    LET exc == ReadTranscriptExc(content) IN
    IF exc = "" THEN Hit(JsonLoad(content).doc)
    ELSE IF exc \in CaughtOnRead THEN Miss
    ELSE Raise(exc)

\* The try block of get_summary (lines 154-160).
ReadSummaryExc(content) ==
    LET j == JsonLoad(content) IN
    IF j.exc # "" THEN j.exc
    ELSE IF j.doc.top # "dict" THEN "AttributeError"
    ELSE ""

\* get_summary, from the opening of an existing file on: data.get returns
\* None for a missing key and whatever is stored otherwise.
ReadSummary(content) ==
    LET exc == ReadSummaryExc(content)
        doc == JsonLoad(content).doc IN
    IF exc = "" THEN (IF doc.sumKind = "absent" THEN Miss
                      ELSE IF doc.sumKind = "string" THEN HitSummary(doc)
                      ELSE Res("hit", "", <<>>, FALSE, doc.sumKind))
    ELSE IF exc \in CaughtOnRead THEN Miss
    ELSE Raise(exc)

\* CacheManager.get(video_id, language) in the current state.
Get(vid, lang) ==
    IF ~cacheEnabled THEN Miss
    ELSE LET p == GetCachePath(vid, lang) IN
         IF p.err # "" THEN Raise(p.err)
         ELSE IF p.name \notin DOMAIN dir THEN Miss
         ELSE ReadTranscript(inodes[dir[p.name]])

\* CacheManager.get_summary(video_id, language, length) in the current state.
GetSummary(vid, lang, len) ==
    IF ~summaryEnabled THEN Miss
    ELSE LET p == GetSummaryCachePath(vid, lang, len) IN
         IF p.err # "" THEN Raise(p.err)
         ELSE IF p.name \notin DOMAIN dir THEN Miss
         ELSE ReadSummary(inodes[dir[p.name]])

(***************************************************************************)
(* CacheManager: operations                                                *)
(***************************************************************************)
IdleWriter ==
    [pc |-> "idle", op |-> "", vid |-> <<>>, lang |-> <<>>, len |-> "",
     name |-> <<>>, doc |-> HoleDoc, fd |-> 0, off |-> 0]

Op(op, vid, lang, len, res, io) ==
    [op |-> op, vid |-> vid, lang |-> lang, len |-> len, res |-> res, io |-> io]

NoOp == Op("none", <<>>, <<>>, "", Returned, FALSE)

\* The inode a newly created file gets.
FreshIno ==
    CHOOSE i \in 1..(Cardinality(DOMAIN inodes) + 1) :
        /\ i \notin DOMAIN inodes
        /\ \A j \in 1..(i - 1) : j \in DOMAIN inodes

\* An inode lives while a name or an open file refers to it.
Referenced(d, w) == {d[n] : n \in DOMAIN d} \cup {w[x].fd : x \in DOMAIN w}

Collect(ino, d, w) == [i \in DOMAIN ino \cap Referenced(d, w) |-> ino[i]]

\* set up to the try block (lines 109-112).
SetBegin(w, vid, lang, gen, segs) ==
    /\ wr[w].pc = "idle"
    /\ nops < MaxSets
    /\ nops' = nops + 1
    /\ IF ~cacheEnabled
         THEN /\ lastOp' = Op("set", vid, lang, "", Returned, FALSE)
              /\ wr' = wr
       ELSE IF GetCachePath(vid, lang).err # ""
         THEN /\ lastOp' = Op("set", vid, lang, "", Raise(GetCachePath(vid, lang).err), FALSE)
              /\ wr' = wr
       ELSE /\ wr' = [wr EXCEPT ![w] =
                        [pc |-> "open", op |-> "set", vid |-> vid, lang |-> lang,
                         len |-> "", name |-> GetCachePath(vid, lang).name,
                         doc |-> TranscriptDoc(vid, lang, gen, segs),
                         fd |-> 0, off |-> 0]]
            /\ lastOp' = lastOp
    /\ UNCHANGED <<cacheEnabled, summaryEnabled, rootExists, dir, inodes, committed, touched>>
    /\ UNCHANGED <<extractVars, summVars, reqVars, poolVars, vttVars>>

\* set_summary up to the try block (lines 177-180).
SetSummaryBegin(w, vid, lang, len, text, gen) ==
    /\ wr[w].pc = "idle"
    /\ nops < MaxSets
    /\ nops' = nops + 1
    /\ IF ~summaryEnabled
         THEN /\ lastOp' = Op("set_summary", vid, lang, len, Returned, FALSE)
              /\ wr' = wr
       ELSE IF GetSummaryCachePath(vid, lang, len).err # ""
         THEN /\ lastOp' = Op("set_summary", vid, lang, len,
                              Raise(GetSummaryCachePath(vid, lang, len).err), FALSE)
              /\ wr' = wr
       ELSE /\ wr' = [wr EXCEPT ![w] =
                        [pc |-> "open", op |-> "set_summary", vid |-> vid, lang |-> lang,
                         len |-> len, name |-> GetSummaryCachePath(vid, lang, len).name,
                         doc |-> SummaryDoc(vid, lang, len, text, gen),
                         fd |-> 0, off |-> 0]]
            /\ lastOp' = lastOp
    /\ UNCHANGED <<cacheEnabled, summaryEnabled, rootExists, dir, inodes, committed, touched>>
    /\ UNCHANGED <<extractVars, summVars, reqVars, poolVars, vttVars>>

\* temp_path.open('w'): creates the temporary file or truncates the one of
\* that name; without the cache directory it raises FileNotFoundError, an
\* IOError that the call logs before it returns.
OpenTemp(w) ==
    /\ wr[w].pc = "open"
    /\ LET t == TempPath(wr[w].name)
           ino == IF t \in DOMAIN dir THEN dir[t] ELSE FreshIno IN
       IF rootExists
         THEN /\ dir' = [n \in DOMAIN dir \cup {t} |-> IF n = t THEN ino ELSE dir[n]]
              /\ inodes' = [i \in DOMAIN inodes \cup {ino} |->
                               IF i = ino THEN <<>> ELSE inodes[i]]
              /\ wr' = [wr EXCEPT ![w].pc = "write", ![w].fd = ino, ![w].off = 0]
              /\ touched' = (touched \/ ~InsideRoot(t))
              /\ lastOp' = lastOp
         ELSE /\ wr' = [wr EXCEPT ![w] = IdleWriter]
              /\ lastOp' = Op(wr[w].op, wr[w].vid, wr[w].lang, wr[w].len, Returned, TRUE)
              /\ UNCHANGED <<dir, inodes, touched>>
    /\ UNCHANGED <<cacheEnabled, summaryEnabled, rootExists, committed, nops>>
    /\ UNCHANGED <<extractVars, summVars, reqVars, poolVars, vttVars>>

\* One buffer of json.dump's output reaches the file.
WriteChunk(w) ==
    /\ wr[w].pc = "write"
    /\ wr[w].off < NChunks(wr[w].doc)
    /\ inodes' = [inodes EXCEPT ![wr[w].fd] =
                     WriteAt(@, wr[w].off, Chunk(wr[w].doc, wr[w].off + 1))]
    /\ wr' = [wr EXCEPT ![w].off = @ + 1]
    /\ UNCHANGED <<cacheEnabled, summaryEnabled, rootExists, dir, committed, lastOp, touched, nops>>
    /\ UNCHANGED <<extractVars, summVars, reqVars, poolVars, vttVars>>

\* The file is closed and temp_path.replace(cache_path) renames it; when the
\* temporary name is gone, FileNotFoundError is caught as IOError and logged.
Replace(w) ==
    /\ wr[w].pc = "write"
    /\ wr[w].off = NChunks(wr[w].doc)
    /\ LET t == TempPath(wr[w].name)
           name == wr[w].name
           w2 == [wr EXCEPT ![w] = IdleWriter]
           d2 == IF t \in DOMAIN dir
                   THEN [n \in (DOMAIN dir \ {t}) \cup {name} |->
                            IF n = name THEN dir[t] ELSE dir[n]]
                   ELSE dir IN
       /\ dir' = d2
       /\ wr' = w2
       /\ inodes' = Collect(inodes, d2, w2)
       /\ committed' = IF t \in DOMAIN dir
                         THEN [n \in DOMAIN committed \cup {name} |->
                                  IF n = name THEN wr[w].doc ELSE committed[n]]
                         ELSE committed
       /\ touched' = (touched \/ ~InsideRoot(t) \/ ~InsideRoot(name))
       /\ lastOp' = Op(wr[w].op, wr[w].vid, wr[w].lang, wr[w].len, Returned, TRUE)
    /\ UNCHANGED <<cacheEnabled, summaryEnabled, rootExists, nops>>
    /\ UNCHANGED <<extractVars, summVars, reqVars, poolVars, vttVars>>

\* An IOError that is not caught and reaches the caller.
ReraisedIOError == Raise("IOError")

\* except IOError (lines 130-131, 203-204): the error is logged and the call
\* returns None.
ExceptIOError == Returned

\* The call ends between its steps: the process is killed ("crash"), or a
\* filesystem call raises IOError, which the call logs before it returns.
Interrupt(w, how) ==
    /\ wr[w].pc \in {"open", "write"}
    /\ LET w2 == [wr EXCEPT ![w] = IdleWriter] IN
       /\ wr' = w2
       /\ inodes' = Collect(inodes, dir, w2)
    /\ lastOp' = Op(wr[w].op, wr[w].vid, wr[w].lang, wr[w].len,
                    IF how = "crash" THEN Res("interrupted", "", <<>>, FALSE, "")
                                     ELSE ExceptIOError,
                    how = "ioerror" \/ wr[w].pc = "write")
    /\ UNCHANGED <<cacheEnabled, summaryEnabled, rootExists, dir, committed, touched, nops>>
    /\ UNCHANGED <<extractVars, summVars, reqVars, poolVars, vttVars>>

\* A get call.
DoGet(vid, lang) ==
    /\ lastOp' = Op("get", vid, lang, "", Get(vid, lang),
                    cacheEnabled /\ GetCachePath(vid, lang).err = "")
    /\ touched' = (touched \/ (cacheEnabled /\ GetCachePath(vid, lang).err = ""
                                /\ ~InsideRoot(GetCachePath(vid, lang).name)))
    /\ UNCHANGED <<cacheEnabled, summaryEnabled, rootExists, dir, inodes, wr, committed, nops>>
    /\ UNCHANGED <<extractVars, summVars, reqVars, poolVars, vttVars>>

\* A get_summary call.
DoGetSummary(vid, lang, len) ==
    /\ lastOp' = Op("get_summary", vid, lang, len, GetSummary(vid, lang, len),
                    summaryEnabled /\ GetSummaryCachePath(vid, lang, len).err = "")
    /\ touched' = (touched \/ (summaryEnabled /\ GetSummaryCachePath(vid, lang, len).err = ""
                                /\ ~InsideRoot(GetSummaryCachePath(vid, lang, len).name)))
    /\ UNCHANGED <<cacheEnabled, summaryEnabled, rootExists, dir, inodes, wr, committed, nops>>
    /\ UNCHANGED <<extractVars, summVars, reqVars, poolVars, vttVars>>

\* cache_dir.glob(pattern) on one name of the cache directory: "*" in the
\* pattern stands for any run of characters other than "/", every other
\* element of the pattern for itself.
RECURSIVE GlobMatch(_, _)
GlobMatch(pattern, name) ==
    IF pattern = <<>> THEN name = <<>>
    ELSE IF Head(pattern) = "*"
      THEN \E k \in 0..Len(name) :
              /\ \A i \in 1..k : name[i] # "/"
              /\ GlobMatch(Tail(pattern), SubSeq(name, k + 1, Len(name)))
    ELSE /\ name # <<>>
         /\ Head(name) = Head(pattern)
         /\ GlobMatch(Tail(pattern), Tail(name))

\* The files that clear unlinks however the call is made.
ClearTargetsByVideo(vid, lang) ==
    {n \in DOMAIN dir : GlobMatch(vid \o <<"_", "*", ".json">>, n)}

\* The files that clear unlinks (lines 217-235); <<>> stands for None and for
\* the empty string, which the conditions of clear treat alike.
ClearTargets(vid, lang) ==
    IF vid # <<>> /\ lang # <<>>
      THEN {GetCachePath(vid, lang).name} \cap DOMAIN dir
    ELSE IF vid # <<>>
      THEN {n \in DOMAIN dir : GlobMatch(vid \o <<"_", "*", ".json">>, n)}
    ELSE {n \in DOMAIN dir : GlobMatch(<<"*", ".json">>, n)}

\* A clear call.
Clear(vid, lang) ==
    /\ IF ~cacheEnabled
         THEN /\ lastOp' = Op("clear", vid, lang, "", Returned, FALSE)
              /\ UNCHANGED <<dir, inodes>>
       ELSE IF vid # <<>> /\ lang # <<>> /\ GetCachePath(vid, lang).err # ""
         THEN /\ lastOp' = Op("clear", vid, lang, "", Raise(GetCachePath(vid, lang).err), FALSE)
              /\ UNCHANGED <<dir, inodes>>
       ELSE LET d2 == [n \in DOMAIN dir \ ClearTargets(vid, lang) |-> dir[n]] IN
            /\ dir' = d2
            /\ inodes' = Collect(inodes, d2, wr)
            /\ lastOp' = Op("clear", vid, lang, "", Returned, TRUE)
    /\ UNCHANGED <<cacheEnabled, summaryEnabled, rootExists, wr, committed, touched, nops>>
    /\ UNCHANGED <<extractVars, summVars, reqVars, poolVars, vttVars>>

(***************************************************************************)
(* SubtitleExtractor._extract_video_id                                     *)
(*                                                                         *)
(* A url is a sequence of characters in which a scheme with its host       *)
(* prefix and each of the heads that the patterns look for are written as  *)
(* one element.                                                            *)
(***************************************************************************)
\* re.match(r'^[a-zA-Z0-9_-]{11}$', url), line 59
LooksLikeVideoId(u) ==
    /\ Len(u) >= VIDEO_ID_LEN
    /\ AllOf(u, 1, VIDEO_ID_LEN, IdChars)
    /\ AtDollar(u, VIDEO_ID_LEN)

\* The heads of the three patterns, in the order they are tried.
URL_HEADS ==
    << {"youtube.com/watch?v=", "youtu.be/"}, {"youtube.com/embed/"}, {"youtube.com/v/"} >>

\* The positions at which re.search can match a pattern: one of its heads,
\* followed by 11 characters of the alphabet.
HeadMatches(u, heads) ==
    {i \in 1..Len(u) : /\ u[i] \in heads
                       /\ i + VIDEO_ID_LEN <= Len(u)
                       /\ AllOf(u, i + 1, i + VIDEO_ID_LEN, IdChars)}

Least(S) == CHOOSE x \in S : \A y \in S : x <= y

\* _extract_video_id: the video id, or InvalidURLError.
ExtractVideoId(u) ==
    IF LooksLikeVideoId(u) THEN [err |-> "", id |-> u]
    ELSE LET hits == {k \in 1..Len(URL_HEADS) : HeadMatches(u, URL_HEADS[k]) # {}} IN
         IF hits = {} THEN [err |-> "InvalidURLError", id |-> <<>>]
         ELSE LET i == Least(HeadMatches(u, URL_HEADS[Least(hits)])) IN
              [err |-> "", id |-> SubSeq(u, i + 1, i + VIDEO_ID_LEN)]

(***************************************************************************)
(* GET /transcript                                                         *)
(***************************************************************************)
Requests == 1..NumReqs

IdleReq ==
    [pc |-> "idle", url |-> <<>>, lang |-> <<>>, vid |-> <<>>, spawned |-> FALSE,
     cached |-> FALSE, stored |-> FALSE, status |-> 0, exc |-> "", segs |-> <<>>,
     gen |-> FALSE, summary |-> "", sumLooked |-> "none", nsum |-> 0, text |-> ""]

InitReq == req = [r \in Requests |-> IdleReq]

\* The except clauses of get_transcript (lines 137-180): the status of the
\* HTTPException that each exception becomes.
StatusOf(exc) ==
    CASE exc \in {"HTTPException", "ValueError", "InvalidURLError"} -> 400
      [] exc = "NoSubtitlesFoundError" -> 404
      [] exc = "TimeoutError" -> 408
      [] OTHER -> 500

Failed(rq, exc) == [rq EXCEPT !.pc = "done", !.status = StatusOf(exc), !.exc = exc]

Answered(rq, segs, gen) == [rq EXCEPT !.pc = "done", !.status = 200, !.segs = segs, !.gen = gen]

\* Whether the name config is bound in the namespace of transcript.py: the
\* module imports (lines 1-22) do not bring it in, and nothing assigns it.
ConfigBound == FALSE

\* The request once it has the transcript (lines 79-135).  Without the
\* summary parameter it answers with the transcript.  With it, get_summary is
\* asked; on a miss the length check reads config.MAX_TRANSCRIPT_LENGTH,
\* and the NameError of an unbound config is caught by `except Exception`.
\* The dead branch behind the check is where summarize would be awaited.
Finish(rq, segs, gen) ==
    LET got == GetSummary(rq.vid, rq.lang, rq.summary) IN
    IF rq.summary = "" THEN Answered(rq, segs, gen)
    ELSE IF got.kind = "raise" THEN Failed([rq EXCEPT !.sumLooked = "raise"], got.exc)
    ELSE IF got.kind = "hit" /\ got.text # ""
      THEN [Answered(rq, segs, gen) EXCEPT !.sumLooked = "hit", !.text = got.text]
    ELSE IF ~ConfigBound THEN Failed([rq EXCEPT !.sumLooked = "miss"], "NameError")
    ELSE [rq EXCEPT !.sumLooked = "miss", !.nsum = 1, !.pc = "summarize",
                    !.segs = segs, !.gen = gen]

\* The cache operation that ended last in a request that went as far as rq:
\* its get_summary, or else the operation op before it.
LastOpOf(rq, op) ==
    IF rq.sumLooked = "none" THEN op
    ELSE Op("get_summary", rq.vid, rq.lang, rq.summary,
            GetSummary(rq.vid, rq.lang, rq.summary),
            summaryEnabled /\ GetSummaryCachePath(rq.vid, rq.lang, rq.summary).err = "")

\* The request up to its first await (lines 56-74): the language check, the
\* video id, and the cache lookup; on a hit the request runs to its end.
ReqStart(r, u, l, sm) ==
    /\ req[r].pc = "idle"
    /\ LET id == ExtractVideoId(u)
           rq == [req[r] EXCEPT !.url = u, !.lang = l, !.vid = id.id, !.summary = sm]
           got == Get(id.id, l)
           looked == MatchLanguage(l) /\ id.err = ""
           rq2 == IF ~MatchLanguage(l) THEN Failed(rq, "HTTPException")
                  ELSE IF id.err # "" THEN Failed(rq, id.err)
                  ELSE IF got.kind = "raise" THEN Failed(rq, got.exc)
                  ELSE IF got.kind = "hit"
                    THEN Finish([rq EXCEPT !.cached = TRUE], got.segs, got.gen)
                  ELSE [rq EXCEPT !.pc = "extract"] IN
       /\ req' = [req EXCEPT ![r] = rq2]
       /\ lastOp' = IF looked
                      THEN LastOpOf(rq2, Op("get", id.id, l, "", got,
                                            cacheEnabled /\ GetCachePath(id.id, l).err = ""))
                      ELSE lastOp
       /\ touched' = (touched \/ (looked /\ cacheEnabled /\ GetCachePath(id.id, l).err = ""
                                   /\ ~InsideRoot(GetCachePath(id.id, l).name)))
    /\ UNCHANGED <<cacheEnabled, summaryEnabled, rootExists, dir, inodes, wr, committed, nops>>
    /\ UNCHANGED <<extractVars, summVars, poolVars, vttVars>>

\* extract_subtitles starts the downloader with the language of the request
\* as its --sub-langs argument (lines 104-124).
ReqSpawn(r) ==
    /\ req[r].pc = "extract"
    /\ req' = [req EXCEPT ![r].pc = "running", ![r].spawned = TRUE]
    /\ UNCHANGED <<cacheVars, extractVars, summVars, poolVars, vttVars>>

\* The variant of StoreEntry that leaves the directory as it is.
StoreNothing(name, doc) == [dir |-> dir, inodes |-> inodes]

\* The variant of StoreEntry that keeps an entry that is already there.
StoreIfAbsent(name, doc) ==
    IF name \in DOMAIN dir
      THEN [dir |-> dir, inodes |-> inodes]
      ELSE [dir |-> [n \in DOMAIN dir \cup {name} |->
                        IF n = name THEN FreshIno ELSE dir[n]],
            inodes |-> [i \in DOMAIN inodes \cup {FreshIno} |->
                           IF i = FreshIno THEN Dump(doc) ELSE inodes[i]]]

\* The cache directory after a set call that went through: the temporary
\* file is created or truncated, written, and renamed to name.
StoreEntry(name, doc) ==
    LET t == TempPath(name)
        ino == IF t \in DOMAIN dir THEN dir[t] ELSE FreshIno
        d2 == [n \in (DOMAIN dir \ {t}) \cup {name} |-> IF n = name THEN ino ELSE dir[n]]
        i2 == [i \in DOMAIN inodes \cup {ino} |-> IF i = ino THEN Dump(doc) ELSE inodes[i]] IN
    [dir |-> d2, inodes |-> Collect(i2, d2, wr)]

\* extract_subtitles ends.  When it raises, so does the request; when it
\* returns, the synchronous set call runs to its end (an IOError in it is
\* logged), and the request goes on with the extracted transcript.  The set
\* call leaves the summary files as they are, so that get_summary reads
\* what it would have read before it.
ReqExtracted(r, out, io) ==
    /\ req[r].pc = "running"
    /\ LET rq == req[r]
           p == GetCachePath(rq.vid, rq.lang)
           doc == TranscriptDoc(rq.vid, rq.lang, out.gen, out.segs)
           st == StoreEntry(p.name, doc)
           fin == Finish(rq, out.segs, out.gen)
           finStored == Finish([rq EXCEPT !.stored = TRUE], out.segs, out.gen) IN
       IF out.exc # ""
         THEN /\ req' = [req EXCEPT ![r] = Failed(rq, out.exc)]
              /\ UNCHANGED <<dir, inodes, committed, lastOp, touched>>
       ELSE IF ~cacheEnabled
         THEN /\ req' = [req EXCEPT ![r] = fin]
              /\ lastOp' = LastOpOf(fin, Op("set", rq.vid, rq.lang, "", Returned, FALSE))
              /\ UNCHANGED <<dir, inodes, committed, touched>>
       ELSE IF p.err # ""
         THEN /\ req' = [req EXCEPT ![r] = Failed(rq, p.err)]
              /\ lastOp' = Op("set", rq.vid, rq.lang, "", Raise(p.err), FALSE)
              /\ UNCHANGED <<dir, inodes, committed, touched>>
       ELSE IF io = "ioerror" \/ ~rootExists
         THEN /\ req' = [req EXCEPT ![r] = fin]
              /\ lastOp' = LastOpOf(fin, Op("set", rq.vid, rq.lang, "", Returned, TRUE))
              /\ UNCHANGED <<dir, inodes, committed, touched>>
       ELSE /\ req' = [req EXCEPT ![r] = finStored]
            /\ dir' = st.dir
            /\ inodes' = st.inodes
            /\ committed' = [n \in DOMAIN committed \cup {p.name} |->
                                IF n = p.name THEN doc ELSE committed[n]]
            /\ lastOp' = LastOpOf(finStored, Op("set", rq.vid, rq.lang, "", Returned, TRUE))
            /\ touched' = (touched \/ ~InsideRoot(p.name))
    /\ UNCHANGED <<cacheEnabled, summaryEnabled, rootExists, wr, nops>>
    /\ UNCHANGED <<extractVars, summVars, poolVars, vttVars>>

(***************************************************************************)
(* Summarizer: texts and regular expressions                               *)
(*                                                                         *)
(* A text is a sequence of tokens.  A token is a run of characters that    *)
(* the summarizer's patterns treat as a unit: a whitespace character, a    *)
(* word, a URL scheme, a shell metacharacter.  Tokens that follow each     *)
(* other without a whitespace token between them form one word.            *)
(***************************************************************************)
Ws == {" ", NL}

Schemes == {"http://", "https://"}

URL_MARKER == "[URL]"

Ellipsis == "..."

\* The backquote character.
Tick == "<backquote>"

\* Pad stands for PadWords words "x" separated by single spaces, PadCut,
\* with the number that follows it, for that many first words of a Pad.  In
\* every text a Pad has whitespace or a text boundary on both sides.
PadWords == MAX_WORDS - 1

Pad == "x x (...) x"

PadCut == "x x (...)"

\* A match that does not fold the letter case.
LowerAsIs(tok) == tok

\* str.lower() on the words that occur in upper or mixed case.
Lower(tok) ==
    CASE tok = "Ignore"       -> "ignore"
      [] tok = "INSTRUCTIONS" -> "instructions"
      [] tok = "Reading"      -> "reading"
      [] OTHER                -> tok

\* The elements of a pattern: one token out of a set, a repetition of a
\* character class, an alternation of sub-patterns.
Tok(s) == [k |-> "tok", s |-> s, c |-> "", min |-> 0, alts |-> <<>>]

Rep(c, min) == [k |-> "rep", s |-> {}, c |-> c, min |-> min, alts |-> <<>>]

Alt(alts) == [k |-> "alt", s |-> {}, c |-> "", min |-> 0, alts |-> alts]

Opt(p) == Alt(<<p, <<>>>>)

Ws1 == Rep("ws", 1)

\* \s, [^\s], all but a backquote, [\s,] and the dot, which matches all but a newline.
InClass(tok, c) ==
    CASE c = "ws"      -> tok \in Ws
      [] c = "nonws"   -> tok \notin Ws \cup {Pad, PadCut}
      [] c = "nottick" -> tok # Tick
      [] c = "sep"     -> tok \in Ws \cup {","}
      [] OTHER         -> tok # NL

\* Whether pattern p matches text t from position j on; ic is re.IGNORECASE.
RECURSIVE MatchAt(_, _, _, _)
MatchAt(p, t, j, ic) ==
    IF Len(p) = 0 THEN TRUE
    ELSE LET it == Head(p)
             rest == Tail(p) IN
         CASE it.k = "tok" ->
                /\ j <= Len(t)
                /\ (IF ic THEN Lower(t[j]) ELSE t[j]) \in it.s
                /\ MatchAt(rest, t, j + 1, ic)
           [] it.k = "rep" ->
                \E n \in it.min..(Len(t) - j + 1) :
                    /\ \A q \in j..(j + n - 1) : InClass(t[q], it.c)
                    /\ MatchAt(rest, t, j + n, ic)
           [] OTHER ->
                \E a \in 1..Len(it.alts) : MatchAt(it.alts[a] \o rest, t, j, ic)

\* re.search(p, t) and re.search(p, t, re.IGNORECASE) as a truth value.
ReSearch(p, t, ic) == \E j \in 1..(Len(t) + 1) : MatchAt(p, t, j, ic)

\* str.strip()
RECURSIVE LStrip(_)
LStrip(t) == IF t # <<>> /\ Head(t) \in Ws THEN LStrip(Tail(t)) ELSE t

RECURSIVE RStrip(_)
RStrip(t) ==
    IF t # <<>> /\ t[Len(t)] \in Ws THEN RStrip(SubSeq(t, 1, Len(t) - 1)) ELSE t

Strip(t) == RStrip(LStrip(t))

\* str.split('\n'): cur is the line being collected.
RECURSIVE SplitLines(_, _, _)
SplitLines(t, j, cur) ==
    IF j > Len(t) THEN <<cur>>
    ELSE IF t[j] = NL THEN <<cur>> \o SplitLines(t, j + 1, <<>>)
    ELSE SplitLines(t, j + 1, Append(cur, t[j]))

\* sep.join(parts)
RECURSIVE Join(_, _)
Join(parts, sep) ==
    IF Len(parts) = 0 THEN <<>>
    ELSE IF Len(parts) = 1 THEN parts[1]
    ELSE parts[1] \o <<sep>> \o Join(Tail(parts), sep)

\* str.split(): the words, each the tokens of a maximal run without
\* whitespace.
RECURSIVE Words(_, _, _)
Words(t, j, cur) ==
    IF j > Len(t) THEN (IF cur = <<>> THEN <<>> ELSE <<cur>>)
    ELSE IF t[j] \in Ws
      THEN (IF cur = <<>> THEN <<>> ELSE <<cur>>) \o Words(t, j + 1, <<>>)
    ELSE Words(t, j + 1, Append(cur, t[j]))

\* The number of words that a run of tokens stands for.
WordsIn(run) ==
    IF \E q \in 1..Len(run) : run[q] = Pad THEN PadWords
    ELSE IF run[1] = PadCut THEN CHOOSE n \in 1..PadWords : ToString(n) = run[2]
    ELSE 1

\* len(summary.split())
RECURSIVE WordCount(_, _)
WordCount(runs, i) ==
    IF i > Len(runs) THEN 0 ELSE WordsIn(runs[i]) + WordCount(runs, i + 1)

\* The first n words of a Pad.
CutPad(n) == <<PadCut, ToString(n)>>

\* summary.split()[:n].  A run that holds more than n words is a Pad.
RECURSIVE FirstWords(_, _, _)
FirstWords(runs, i, n) ==
    IF i > Len(runs) \/ n = 0 THEN <<>>
    ELSE IF WordsIn(runs[i]) <= n
      THEN <<runs[i]>> \o FirstWords(runs, i + 1, n - WordsIn(runs[i]))
    ELSE <<CutPad(n)>>

(***************************************************************************)
(* Summarizer: _extract_summary_from_output                                *)
(***************************************************************************)
SKIP_PATTERNS ==
    {"Reading", "Fetching", "Total usage", "Total duration", "Usage by model",
     "model:", "Est."}

\* any(stripped.startswith(pattern) for pattern in skip_patterns)
StartsWithSkip(line) == line # <<>> /\ line[1] \in SKIP_PATTERNS

\* The loop over the lines (lines 172-189): found is found_summary, acc is
\* summary_lines.
RECURSIVE ScanLines(_, _, _, _)
ScanLines(lines, i, found, acc) ==
    IF i > Len(lines) THEN acc
    ELSE LET stripped == Strip(lines[i]) IN
         IF stripped = <<>> /\ ~found THEN ScanLines(lines, i + 1, found, acc)
         ELSE IF StartsWithSkip(stripped)
           THEN (IF found THEN acc ELSE ScanLines(lines, i + 1, found, acc))
         ELSE ScanLines(lines, i + 1, TRUE, Append(acc, stripped))

ExtractSummaryFromOutput(raw_output) ==
    LET joined == Strip(Join(ScanLines(SplitLines(raw_output, 1, <<>>), 1, FALSE, <<>>), " ")) IN
    IF joined = <<>> THEN Strip(raw_output) ELSE joined

(***************************************************************************)
(* Summarizer: _validate_summary_output                                    *)
(***************************************************************************)
\* r'https?://[^\s]+'
URL_PATTERN == <<Tok(Schemes), Rep("nonws", 1)>>

\* The first position from j on that does not continue a URL.
RECURSIVE UrlEnd(_, _)
UrlEnd(t, j) == IF j <= Len(t) /\ InClass(t[j], "nonws") THEN UrlEnd(t, j + 1) ELSE j

\* re.sub(url_pattern, '[URL]', summary) from position j on.
RECURSIVE ReSubUrl(_, _)
ReSubUrl(t, j) ==
    IF j > Len(t) THEN <<>>
    ELSE IF MatchAt(URL_PATTERN, t, j, FALSE)
      THEN <<URL_MARKER>> \o ReSubUrl(t, UrlEnd(t, j + 1))
    ELSE <<t[j]>> \o ReSubUrl(t, j + 1)

\* A validation that leaves URLs in place.
KeepURLs(summary) == summary

\* Lines 70-75: the URLs are replaced when there are any.
RedactURLs(summary) ==
    IF ReSearch(URL_PATTERN, summary, FALSE) THEN ReSubUrl(summary, 1) ELSE summary

\* The dangerous patterns without the first.
DANGEROUS_PATTERNS_SHORT ==
    << <<Tok({Tick}), Rep("nottick", 1), Tok({Tick})>>,
       <<Tok({";"}), Rep("ws", 0), Tok({"rm"}), Tok(Ws)>>,
       <<Tok({"|"}), Rep("ws", 0), Tok({"bash"})>>,
       <<Tok({"exec("})>>,
       <<Tok({"eval("})>> >>

\* dangerous_patterns (lines 78-85).
DANGEROUS_PATTERNS ==
    << <<Tok({"${"})>>,
       <<Tok({Tick}), Rep("nottick", 1), Tok({Tick})>>,
       <<Tok({";"}), Rep("ws", 0), Tok({"rm"}), Tok(Ws)>>,
       <<Tok({"|"}), Rep("ws", 0), Tok({"bash"})>>,
       <<Tok({"exec("})>>,
       <<Tok({"eval("})>> >>

\* meta_instruction_patterns (lines 96-115); an optional apostrophe inside a
\* word gives two spellings of the word.
META_INSTRUCTION_PATTERNS ==
    << <<Tok({"ignore"}), Ws1, Opt(<<Tok({"all"}), Ws1>>), Tok({"previous"}), Ws1,
         Tok({"instructions"})>>,
       <<Tok({"system"}), Ws1, Tok({"override"})>>,
       <<Tok({"you"}), Ws1, Tok({"are"}), Ws1, Tok({"now"}), Ws1, Tok({"a"})>>,
       <<Tok({"disregard"}), Ws1, Opt(<<Tok({"all"}), Ws1>>), Tok({"prior"})>>,
       <<Tok({"i'll", "ill"}), Ws1, Tok({"only"}), Ws1,
         Tok({"produce", "generate", "create", "write"})>>,
       <<Tok({"understood"}), Rep("sep", 1),
         Tok({"i'll", "ill", "i'will", "iwill", "we'll", "well", "we'will", "wewill"})>>,
       <<Tok({"understood"}), Rep("dot", 0), Tok({"ready"}), Ws1, Tok({"to"}), Ws1,
         Tok({"summarize", "produce", "generate"})>>,
       <<Tok({"please"}), Ws1, Tok({"paste", "provide", "send", "give"}), Ws1,
         Opt(<<Tok({"the"}), Ws1>>), Tok({"text"})>>,
       <<Tok({"paste"}), Ws1, Tok({"the"}), Ws1, Tok({"text"}), Ws1,
         Alt(<< <<Tok({"you"}), Ws1, Tok({"want"})>>, <<Tok({"to"})>>, <<Tok({"for"})>> >>)>>,
       <<Tok({"send"}), Ws1, Opt(<<Tok({"me"}), Ws1>>), Tok({"the"}), Ws1, Tok({"text"})>>,
       <<Tok({"understood"}), Rep("dot", 0), Tok({"send"}), Rep("dot", 0), Tok({"text"})>>,
       <<Tok({"tell"}), Ws1, Tok({"me"}), Ws1, Opt(<<Tok({"the"}), Ws1>>),
         Opt(<<Tok({"any"}), Ws1>>),
         Alt(<< <<Tok({"constraints", "requirements", "parameters", "focus"})>>,
                <<Tok({"desired"}), Ws1, Tok({"length"})>> >>)>>,
       <<Tok({"what", "which"}), Ws1, Tok({"text"}), Ws1, Tok({"should", "would", "do"}),
         Ws1, Tok({"you"}), Ws1, Tok({"want"})>>,
       <<Tok({"desired"}), Ws1, Tok({"length"}), Ws1, Tok({"or"}), Ws1, Tok({"focus"})>> >>

\* The loop of lines 87-92.
HasDangerous(summary) ==
    \E k \in 1..Len(DANGEROUS_PATTERNS) : ReSearch(DANGEROUS_PATTERNS[k], summary, FALSE)

\* The loop of lines 117-122.
HasMetaInstruction(summary) ==
    \E k \in 1..Len(META_INSTRUCTION_PATTERNS) :
        ReSearch(META_INSTRUCTION_PATTERNS[k], summary, TRUE)

\* A check that lets a summary of any length through.
TruncateNever(summary) == summary

\* Lines 125-130.
Truncate(summary) ==
    LET words == Words(summary, 1, <<>>) IN
    IF WordCount(words, 1) > MAX_WORDS
      THEN Append(Join(FirstWords(words, 1, MAX_WORDS), " "), Ellipsis)
      ELSE summary

SRes(kind, text) == [kind |-> kind, text |-> text]

SRaise(exc) == SRes(exc, <<>>)

ValidateSummaryOutput(summary) ==
    LET redacted == RedactURLs(summary) IN
    IF HasDangerous(redacted) THEN SRaise("SummarizationFailedError")
    ELSE IF HasMetaInstruction(redacted) THEN SRaise("SummarizationFailedError")
    ELSE SRes("ok", Truncate(redacted))

(***************************************************************************)
(* Summarizer: _execute_copilot and summarize                              *)
(***************************************************************************)
\* A table that has an entry for every length.
WordCountsForAll == {"short", "medium", "long", "huge"}

\* The keys of word_counts (lines 337-341).
WORD_COUNTS == {"short", "medium", "long"}

\* The try block of _execute_copilot (lines 273-307) once the subprocess
\* has ended: what it returns or raises.
ExecuteCopilotTry(how, code, out) ==
    IF how = "missing" THEN SRaise("FileNotFoundError")
    ELSE IF how = "timeout" THEN SRaise("CopilotTimeoutError")
    ELSE IF code # 0 THEN SRaise("SummarizationFailedError")
    ELSE IF Strip(out) = <<>> THEN SRaise("SummarizationFailedError")
    ELSE SRes("ok", ExtractSummaryFromOutput(Strip(out)))

\* The except clauses (lines 309-313): every exception of the try block
\* other than FileNotFoundError is an Exception.
ExecuteCopilot(how, code, out) ==
    LET r == ExecuteCopilotTry(how, code, out) IN
    IF r.kind = "ok" THEN r
    ELSE IF r.kind = "FileNotFoundError" THEN SRaise("CopilotNotFoundError")
    ELSE SRaise("SummarizationFailedError")

\* str(e) of the exception the try block raises, as a sequence of pieces:
\* the fixed texts are one piece each, err is the stderr of the tool.
TryMessage(how, code, out, err) ==
    IF how = "missing" THEN <<"[Errno 2] No such file or directory">>
    ELSE IF how = "timeout" THEN <<"Summarization timed out after ... seconds">>
    ELSE IF code # 0 THEN <<"Copilot CLI error: ">> \o err
    ELSE IF Strip(out) = <<>> THEN <<"Copilot CLI returned empty output">>
    ELSE <<>>

\* The message of the exception _execute_copilot raises once the subprocess
\* has ended (lines 309-313), <<>> when it returns.
CopilotMessage(how, code, out, err) ==
    LET r == ExecuteCopilotTry(how, code, out) IN
    IF r.kind = "ok" THEN <<>>
    ELSE IF r.kind = "FileNotFoundError" THEN <<"GitHub Copilot CLI not found at ...">>
    ELSE <<"Summarization failed: ">> \o TryMessage(how, code, out, err)

InitSumm ==
    /\ spc = "idle"
    /\ slen = ""
    /\ sfile = FALSE
    /\ csem = MAX_CONCURRENT_COPILOT
    /\ tool = "none"
    /\ rc = 0
    /\ stdout = <<>>
    /\ nfrags = 0
    /\ sres = SRes("none", <<>>)
    /\ smsg = <<>>

\* summarize up to the await in _execute_copilot: the length check, the
\* temporary file, the lookup of the binary and the semaphore.  The file is
\* created with delete=False and written before the try block is entered:
\* when the write raises (an OSError, or a UnicodeEncodeError), the file
\* stays.  The finally clause removes the file when the binary is not found.
Summarize(length, written, found) ==
    /\ spc = "idle"
    /\ slen' = length
    /\ IF length \notin WORD_COUNTS
         THEN /\ sres' = SRaise("InvalidSummaryLengthError")
              /\ spc' = "done"
              /\ UNCHANGED <<sfile, csem, tool, smsg>>
       ELSE IF ~written
         THEN /\ sres' = SRaise("OSError")
              /\ spc' = "done"
              /\ sfile' = TRUE
              /\ UNCHANGED <<csem, tool, smsg>>
       ELSE IF ~found
         THEN /\ sres' = SRaise("CopilotNotFoundError")
              /\ spc' = "done"
              /\ tool' = "notfound"
              /\ smsg' = <<"GitHub Copilot CLI not found. Install with: ...">>
              /\ UNCHANGED <<sfile, csem>>
       ELSE /\ sfile' = TRUE
            /\ csem' = csem - 1
            /\ tool' = "running"
            /\ spc' = "running"
            /\ UNCHANGED <<sres, smsg>>
    /\ UNCHANGED <<rc, stdout, nfrags>>
    /\ UNCHANGED <<extractVars, cacheVars, reqVars, poolVars, vttVars>>

\* The tool writes to its standard output.
ToolWrites(frag) ==
    /\ tool = "running"
    /\ nfrags < MaxFrags
    /\ stdout' = stdout \o frag
    /\ nfrags' = nfrags + 1
    /\ UNCHANGED <<spc, slen, sfile, csem, tool, rc, sres, smsg>>
    /\ UNCHANGED <<extractVars, cacheVars, reqVars, poolVars, vttVars>>

\* subprocess.run ends: the tool has exited with some code and has written
\* err to its standard error, the timeout has expired, or the binary could
\* not be executed.  The call runs to its end:
\* _execute_copilot, the validation, and the finally clause.
ToolEnds(how, code, err) ==
    /\ tool = "running"
    /\ how = "missing" => stdout = <<>>
    /\ tool' = how
    /\ rc' = code
    /\ smsg' = CopilotMessage(how, code, stdout, err)
    /\ LET r == ExecuteCopilot(how, code, stdout) IN
       sres' = IF r.kind = "ok" THEN ValidateSummaryOutput(r.text) ELSE r
    /\ csem' = csem + 1
    /\ sfile' = FALSE
    /\ spc' = "done"
    /\ UNCHANGED <<slen, stdout, nfrags>>
    /\ UNCHANGED <<extractVars, cacheVars, reqVars, poolVars, vttVars>>

(***************************************************************************)
(* Summarizer: concurrent calls of _execute_copilot                        *)
(*                                                                         *)
(* Several summarize calls with a valid length whose temporary file is     *)
(* written; what the tool prints plays no part here.  csem is the value of *)
(* the one semaphore of the summarizer.                                    *)
(***************************************************************************)
SummCalls == 1..NumSumm

InitPool ==
    /\ kpc = [k \in SummCalls |-> "idle"]
    /\ kwait = <<>>
    /\ ktool = [k \in SummCalls |-> "none"]

\* A semaphore that lets every caller in.
CopilotLockedNever == FALSE

\* asyncio.Semaphore.locked() of the summarizer's semaphore.
CopilotLocked == csem = 0 \/ kwait # <<>>

\* _execute_copilot up to `async with self._semaphore` (lines 216-274): the
\* binary is looked up, then the call takes a slot at once or queues.
PoolCall(k, found) ==
    /\ kpc[k] = "idle"
    /\ IF ~found
         THEN /\ kpc' = [kpc EXCEPT ![k] = "done"]
              /\ UNCHANGED <<csem, kwait>>
       ELSE IF CopilotLocked
         THEN /\ kwait' = Append(kwait, k)
              /\ kpc' = [kpc EXCEPT ![k] = "waiting"]
              /\ csem' = csem
       ELSE /\ csem' = csem - 1
            /\ kpc' = [kpc EXCEPT ![k] = "acquired"]
            /\ kwait' = kwait
    /\ UNCHANGED <<ktool, spc, slen, sfile, tool, rc, stdout, nfrags, sres, smsg>>
    /\ UNCHANGED <<extractVars, cacheVars, reqVars, vttVars>>

\* Leaving the `async with` block: release() increments the value and wakes
\* the first waiter, which takes the slot at once.
PoolLeave(k) ==
    IF kwait # <<>>
      THEN /\ kwait' = Tail(kwait)
           /\ csem' = csem
           /\ kpc' = [kpc EXCEPT ![k] = "done", ![Head(kwait)] = "acquired"]
      ELSE /\ csem' = csem + 1
           /\ kwait' = kwait
           /\ kpc' = [kpc EXCEPT ![k] = "done"]

\* run_in_executor: a thread calls subprocess.run, which starts the tool;
\* when the binary cannot be executed, FileNotFoundError ends the call.
PoolRun(k, started) ==
    /\ kpc[k] = "acquired"
    /\ IF started
         THEN /\ ktool' = [ktool EXCEPT ![k] = "running"]
              /\ kpc' = [kpc EXCEPT ![k] = "running"]
              /\ UNCHANGED <<csem, kwait>>
         ELSE /\ PoolLeave(k)
              /\ ktool' = ktool
    /\ UNCHANGED <<spc, slen, sfile, tool, rc, stdout, nfrags, sres, smsg>>
    /\ UNCHANGED <<extractVars, cacheVars, reqVars, vttVars>>

\* The tool exits by itself, or subprocess.run kills it when the timeout
\* expires and waits for it.
PoolToolExits(k) ==
    /\ ktool[k] = "running"
    /\ ktool' = [ktool EXCEPT ![k] = "exited"]
    /\ UNCHANGED <<kpc, kwait, summVars>>
    /\ UNCHANGED <<extractVars, cacheVars, reqVars, vttVars>>

\* subprocess.run returns or raises, the await in _execute_copilot ends, and
\* the call leaves the semaphore block.
PoolReturns(k) ==
    /\ kpc[k] = "running"
    /\ ktool[k] = "exited"
    /\ PoolLeave(k)
    /\ ktool' = ktool
    /\ UNCHANGED <<spc, slen, sfile, tool, rc, stdout, nfrags, sres, smsg>>
    /\ UNCHANGED <<extractVars, cacheVars, reqVars, vttVars>>

\* The caller's task is cancelled while it awaits the executor's future:
\* CancelledError leaves the semaphore block, and the thread goes on with
\* subprocess.run until the tool exits or its timeout expires.
PoolCancel(k) ==
    /\ kpc[k] = "running"
    /\ PoolLeave(k)
    /\ ktool' = ktool
    /\ UNCHANGED <<spc, slen, sfile, tool, rc, stdout, nfrags, sres, smsg>>
    /\ UNCHANGED <<extractVars, cacheVars, reqVars, vttVars>>

(***************************************************************************)
(* parse_vtt                                                               *)
(*                                                                         *)
(* The content is the sequence of its lines, each one stripped.  A line is *)
(* a record: ts holds the two times of a line that starts with a timing    *)
(* (<<>> otherwise), toks the pieces of text of the line ("<" and ">" are  *)
(* pieces of their own; what follows a timing on its line is never read).  *)
(* A time is written [hh, mm, ss, ms], hh being <<>> when the hours are    *)
(* left out.  Times are counted in milliseconds.                           *)
(***************************************************************************)
DigitPieces == {"1", "2"}

\* not line
IsBlank(line) == line.ts = <<>> /\ line.toks = <<>>

\* line.isdigit()
IsDigit(line) ==
    /\ line.ts = <<>>
    /\ line.toks # <<>>
    /\ \A j \in 1..Len(line.toks) : line.toks[j] \in DigitPieces

\* re.match(timestamp_pattern, line)
IsTimestamp(line) == line.ts # <<>>

\* line.strip().startswith('WEBVTT')
IsHeader(line) == line.ts = <<>> /\ line.toks # <<>> /\ line.toks[1] = "WEBVTT"

\* The time of lines 47-51 and 54-58, in milliseconds.
TimeOf(t) ==
    (IF t.hh = <<>> THEN 0 ELSE t.hh[1]) * 3600000 + t.mm * 60000 + t.ss * 1000 + t.ms

\* re.sub(r'<[^>]*?>', '', text_line): from each "<" that has a ">" after it
\* on the line, everything up to the first such ">" goes.
RECURSIVE StripTags(_)
StripTags(toks) ==
    IF toks = <<>> THEN <<>>
    ELSE IF Head(toks) = "<" /\ \E j \in 2..Len(toks) : toks[j] = ">"
      THEN LET j == Least({q \in 2..Len(toks) : toks[q] = ">"}) IN
           StripTags(SubSeq(toks, j + 1, Len(toks)))
    ELSE <<Head(toks)>> \o StripTags(Tail(toks))

\* The inner loop (lines 63-70) from line i on: the text lines of the cue,
\* and the index of the line at which the loop stops.
RECURSIVE CollectText(_, _)
CollectText(lines, i) ==
    IF i > Len(lines) \/ IsBlank(lines[i]) \/ IsTimestamp(lines[i])
      THEN [texts |-> <<>>, next |-> i]
      ELSE LET rest == CollectText(lines, i + 1)
               text_line == StripTags(lines[i].toks) IN
           [texts |-> IF text_line # <<>> THEN <<text_line>> \o rest.texts ELSE rest.texts,
            next |-> rest.next]

\* ' '.join(text_lines)
RECURSIVE JoinLines(_)
JoinLines(text_lines) ==
    IF Len(text_lines) = 1 THEN text_lines[1]
    ELSE text_lines[1] \o <<" ">> \o JoinLines(Tail(text_lines))

\* The outer loop (lines 32-80) from line i on: the segments appended.
RECURSIVE ParseCues(_, _)
ParseCues(lines, i) ==
    IF i > Len(lines) THEN <<>>
    ELSE IF IsBlank(lines[i]) \/ IsDigit(lines[i]) THEN ParseCues(lines, i + 1)
    ELSE IF IsTimestamp(lines[i])
      THEN LET cue == CollectText(lines, i + 1) IN
           (IF cue.texts # <<>>
              THEN <<[start |-> TimeOf(lines[i].ts[1]), end |-> TimeOf(lines[i].ts[2]),
                      text |-> JoinLines(cue.texts)]>>
              ELSE <<>>)
             \o ParseCues(lines, cue.next)
    ELSE ParseCues(lines, i + 1)

\* parse_vtt on the lines of content.strip(): parsing starts after the first
\* header line, or at the first line when there is none.  The blank lines
\* that strip() drops at both ends would be skipped by the loops as well.
ParseVtt(lines) ==
    LET heads == {i \in 1..Len(lines) : IsHeader(lines[i])}
        start_idx == IF heads = {} THEN 1 ELSE Least(heads) + 1
        segments == ParseCues(lines, start_idx) IN
    IF segments = <<>> THEN [err |-> "ValueError", segments |-> <<>>]
    ELSE [err |-> "", segments |-> segments]

NotParsed == [err |-> "none", segments |-> <<>>]

InitVtt ==
    /\ vtt = <<>>
    /\ parsed = NotParsed

\* parse_vtt is called with the content of the subtitle file.
Parse ==
    /\ parsed = NotParsed
    /\ parsed' = ParseVtt(vtt)
    /\ vtt' = vtt
    /\ UNCHANGED <<extractVars, cacheVars, summVars, reqVars, poolVars>>

(***************************************************************************)
(* Inputs                                                                  *)
(***************************************************************************)
\* What the tool may write to its standard error.
StderrTexts == {<<>>, <<"Error: not signed in">>, <<"Error: quota exceeded for ", "user">>}

Writers == 1..NumWriters

VidOK == <<"a", "A", "0", "_", "-", "x", "x", "x", "x", "x", "x">>

VidNewline == VidOK \o <<NL>>

VidShort == SubSeq(VidOK, 1, VIDEO_ID_LEN - 1)

VidTraversal == <<".", ".", "/", ".", ".", "/", "e", "t", "c", "/", "x">>

VidStar == <<"*">>

VidOther == <<"c", "B", "9", "_", "-", "t", "t", "t", "t", "t", "t">>

UrlWatch == <<"https://www.", "youtube.com/watch?v=">> \o VidOK

UrlShort == <<"https://", "youtu.be/">> \o VidOther

UrlEmbed == <<"https://www.", "youtube.com/embed/">> \o VidOK \o <<"?", "t", "=", "9">>

UrlV == <<"https://www.", "youtube.com/v/">> \o VidOther

UrlWatchShortId == <<"https://www.", "youtube.com/watch?v=">> \o VidShort

UrlOtherSite == <<"https://", "example.com/">> \o VidOK

LangBad == <<"x", "x", "_", "i", "n", "v", "a", "l", "i", "d", "!">>

LangEn == <<"e", "n">>

LangPtBR == <<"p", "t", "-", "B", "R">>

LangNewline == <<"e", "n", NL>>

LangDots == <<".", ".", "/">>

Segs1 == <<Seg("ok", 0, 1, "one")>>

Segs2 == <<Seg("ok", 0, 1, "uno"), Seg("ok", 1, 2, "dos")>>

\* The transcripts that the set calls store.
Records == {[gen |-> FALSE, segs |-> Segs1], [gen |-> TRUE, segs |-> Segs2]}

\* What extract_subtitles returns or raises.
Extractions ==
    {[exc |-> "", gen |-> rec.gen, segs |-> rec.segs] : rec \in Records}
        \cup {[exc |-> e, gen |-> FALSE, segs |-> <<>>] :
                 e \in {"NoSubtitlesFoundError", "TimeoutError", "SubtitleExtractionError"}}

\* A document of some shape, as another program or a damaged disk leaves it.
ForeignDoc(top, segsKind, segs, sumKind) ==
    [top |-> top, vid |-> VidOK, lang |-> LangEn, segsKind |-> segsKind, segs |-> segs,
     gen |-> "absent", sumKind |-> sumKind, sum |-> "", len |-> ""]

\* Contents of an existing transcript cache file: a record as set writes it,
\* a truncated record, an empty file, bytes that are no JSON or no UTF-8,
\* JSON values that are no object, and objects with a missing or ill-typed
\* 'segments' or with ill-formed entries in it.
TranscriptFiles ==
    { Dump(TranscriptDoc(VidOK, LangEn, FALSE, Segs1)),
      SubSeq(Dump(TranscriptDoc(VidOK, LangEn, TRUE, Segs2)), 1, 1),
      <<>>,
      Dump(ForeignDoc("garbage", "absent", <<>>, "absent")),
      Dump(ForeignDoc("badutf8", "absent", <<>>, "absent")),
      Dump(ForeignDoc("list", "absent", <<>>, "absent")),
      Dump(ForeignDoc("string", "absent", <<>>, "absent")),
      Dump(ForeignDoc("null", "absent", <<>>, "absent")),
      Dump(ForeignDoc("dict", "absent", <<>>, "absent")),
      Dump(ForeignDoc("dict", "number", <<>>, "absent")),
      Dump(ForeignDoc("dict", "list", <<Seg("not_dict", 0, 0, "")>>, "absent")),
      Dump(ForeignDoc("dict", "list", <<Seg("ok", 0, 1, "one"), Seg("missing_field", 0, 0, "")>>,
                      "absent")),
      Dump(ForeignDoc("dict", "list", <<Seg("wrong_type", 0, 0, "")>>, "absent")) }

\* Contents of an existing summary cache file.
SummaryFiles ==
    { Dump(SummaryDoc(VidOK, LangEn, "short", "s1", FALSE)),
      <<>>,
      Dump(ForeignDoc("garbage", "absent", <<>>, "absent")),
      Dump(ForeignDoc("badutf8", "absent", <<>>, "absent")),
      Dump(ForeignDoc("list", "absent", <<>>, "absent")),
      Dump(ForeignDoc("string", "absent", <<>>, "absent")),
      Dump(ForeignDoc("dict", "absent", <<>>, "absent")),
      Dump(ForeignDoc("dict", "absent", <<>>, "number")) }

\* What the tool writes in one piece: words, whitespace, narration, the
\* injected phrase, URLs, a URL scheme without a host, a thousand words less
\* one, and shell syntax.
Fragments ==
    { <<"x">>,
      <<" ">>,
      <<NL>>,
      <<"Reading", " ">>,
      <<"Total usage", NL>>,
      <<"Ignore", " ", "previous", " ", "INSTRUCTIONS", NL>>,
      <<"https://", "x">>,
      <<"http://", " ">>,
      <<" ", Pad, " ">>,
      <<"${">>,
      <<Tick, "x", Tick>> }

(***************************************************************************)
(* Specifications                                                          *)
(***************************************************************************)
InitFiles ==
    /\ dir = <<>>
    /\ inodes = <<>>
    /\ wr = [w \in Writers |-> IdleWriter]
    /\ committed = <<>>
    /\ lastOp = NoOp
    /\ touched = FALSE
    /\ nops = 0

\* With CACHE_ENABLED the constructor creates the cache directory.
InitCache == cacheEnabled = TRUE /\ summaryEnabled = TRUE /\ rootExists = TRUE /\ InitFiles

\* The steps of the set or set_summary call of writer w.
WriterSteps(w) ==
    \/ OpenTemp(w)
    \/ WriteChunk(w)
    \/ Replace(w)

\* extract_subtitles calls on one extractor.
InitOfExtract == InitExtract /\ InitCache /\ InitSumm /\ InitReq /\ InitPool /\ InitVtt

NextExtract ==
    \E c \in Calls :
        \/ \E u \in {"valid", "invalid"} : Call(c, u)
        \/ Enter(c)
        \/ \E started \in BOOLEAN : Spawn(c, started)
        \/ \E info \in ExitInfos : ProcExit(c, info)
        \/ ProcDies(c)
        \/ CommunicateReturns(c)
        \/ TimeoutFires(c)
        \/ WaitReturns(c)

SpecExtract == InitOfExtract /\ [][NextExtract]_vars

\* One writer at a time, as in a single event loop; the call can be
\* interrupted between any two of its steps, and reads come at any time.
InitOfAtomic == InitExtract /\ InitCache /\ InitSumm /\ InitReq /\ InitPool /\ InitVtt

NextAtomic ==
    \/ \E lang \in {LangEn, LangPtBR}, rec \in Records :
          SetBegin(1, VidOK, lang, rec.gen, rec.segs)
    \/ \E text \in {"s1", "s2"} :
          SetSummaryBegin(1, VidOK, LangEn, "short", text, FALSE)
    \/ WriterSteps(1)
    \/ \E how \in {"crash", "ioerror"} : Interrupt(1, how)
    \/ \E lang \in {LangEn, LangPtBR} : DoGet(VidOK, lang)
    \/ DoGetSummary(VidOK, LangEn, "short")

SpecAtomic == InitOfAtomic /\ [][NextAtomic]_vars

\* Several writers of one key, their steps interleaved, as with several
\* worker processes on one cache directory; reads come at any time.
InitOfConc == InitExtract /\ InitCache /\ InitSumm /\ InitReq /\ InitPool /\ InitVtt

NextConc ==
    \/ \E w \in Writers, rec \in Records : SetBegin(w, VidOK, LangEn, rec.gen, rec.segs)
    \/ \E w \in Writers : OpenTemp(w)
    \/ \E w \in Writers : WriteChunk(w)
    \/ \E w \in Writers : Replace(w)
    \/ DoGet(VidOK, LangEn)

SpecConc == InitOfConc /\ [][NextConc]_vars

\* Cache operations on valid and invalid keys, with each cache switched on
\* or off.
KeyVids == {VidOK, VidNewline, VidShort, VidTraversal}

KeyLangs == {LangEn, LangNewline, LangDots}

KeyLens == {"short", "huge"}

InitOfKeys ==
    /\ InitExtract
    /\ InitPool
    /\ InitReq
    /\ InitVtt
    /\ cacheEnabled \in BOOLEAN
    /\ summaryEnabled \in BOOLEAN
    /\ rootExists = TRUE
    /\ InitFiles
    /\ InitSumm

NextKeys ==
    \/ \E vid \in KeyVids, lang \in KeyLangs : SetBegin(1, vid, lang, FALSE, Segs1)
    \/ \E vid \in KeyVids, lang \in KeyLangs, len \in KeyLens :
          SetSummaryBegin(1, vid, lang, len, "s1", FALSE)
    \/ WriterSteps(1)
    \/ \E vid \in KeyVids, lang \in KeyLangs : DoGet(vid, lang)
    \/ \E vid \in KeyVids, lang \in KeyLangs, len \in KeyLens : DoGetSummary(vid, lang, len)

SpecKeys == InitOfKeys /\ [][NextKeys]_vars

\* Two callers with set and set_summary calls in progress at once, each on
\* a key that passes _validate_cache_params.
PathWriters == {1, 2}

PathVids == {VidOK, VidNewline}

PathLangs == {LangEn, LangNewline}

PathLens == {"short", "long"}

InitOfPaths == InitExtract /\ InitCache /\ InitSumm /\ InitReq /\ InitPool /\ InitVtt

NextPaths ==
    \/ \E w \in PathWriters, vid \in PathVids, lang \in PathLangs :
           SetBegin(w, vid, lang, FALSE, Segs1)
    \/ \E w \in PathWriters, vid \in PathVids, lang \in PathLangs, len \in PathLens :
           SetSummaryBegin(w, vid, lang, len, "s1", FALSE)
    \/ \E w \in PathWriters : OpenTemp(w)
    \/ \E w \in PathWriters : WriteChunk(w)
    \/ \E w \in PathWriters : Replace(w)

SpecPaths == InitOfPaths /\ [][NextPaths]_vars

\* Reads of cache files that exist with some content.
InitOfCorrupt ==
    /\ InitExtract
    /\ InitPool
    /\ InitReq
    /\ InitVtt
    /\ InitSumm
    /\ cacheEnabled = TRUE
    /\ summaryEnabled = TRUE
    /\ rootExists = TRUE
    /\ dir = (CacheFileName(VidOK, LangEn) :> 1) @@ (SummaryFileName(VidOK, LangEn, "short") :> 2)
    /\ \E tf \in TranscriptFiles, sf \in SummaryFiles : inodes = <<tf, sf>>
    /\ wr = [w \in Writers |-> IdleWriter]
    /\ committed = <<>>
    /\ lastOp = NoOp
    /\ touched = FALSE
    /\ nops = 0

NextCorrupt ==
    \/ DoGet(VidOK, LangEn)
    \/ DoGetSummary(VidOK, LangEn, "short")

SpecCorrupt == InitOfCorrupt /\ [][NextCorrupt]_vars

\* Entries of two videos are written and cleared, with each cache switched on
\* or off; the cache directory exists when CACHE_ENABLED created it, and may
\* exist from an earlier run otherwise.
ClearVids == {VidOK, VidOther}

InitOfClear ==
    /\ InitExtract
    /\ InitPool
    /\ InitReq
    /\ InitVtt
    /\ cacheEnabled \in BOOLEAN
    /\ summaryEnabled \in BOOLEAN
    /\ rootExists \in (IF cacheEnabled THEN {TRUE} ELSE BOOLEAN)
    /\ InitFiles
    /\ InitSumm

NextClear ==
    \/ \E vid \in ClearVids, lang \in {LangEn, LangPtBR} : SetBegin(1, vid, lang, FALSE, Segs1)
    \/ \E vid \in ClearVids : SetSummaryBegin(1, vid, LangEn, "short", "s1", FALSE)
    \/ WriterSteps(1)
    \/ \E vid \in ClearVids \cup {<<>>, VidShort, VidStar}, lang \in {<<>>, LangEn} :
          Clear(vid, lang)
    \/ DoGetSummary(VidOK, LangEn, "short")

SpecClear == InitOfClear /\ [][NextClear]_vars

\* Requests for a transcript of one video, by its id or its url, in any
\* language, on a cache that is switched on or off.
ReqUrls == {VidOK, UrlWatch}

ReqLangs == {LangEn, LangNewline, LangBad}

InitOfRequest ==
    /\ InitExtract
    /\ InitPool
    /\ InitReq
    /\ InitVtt
    /\ cacheEnabled \in BOOLEAN
    /\ summaryEnabled = TRUE
    /\ rootExists = TRUE
    /\ InitFiles
    /\ InitSumm

NextRequest ==
    \E r \in Requests :
        \/ \E u \in ReqUrls, l \in ReqLangs : ReqStart(r, u, l, "")
        \/ ReqSpawn(r)
        \/ \E out \in Extractions, io \in {"ok", "ioerror"} : ReqExtracted(r, out, io)

SpecRequest == InitOfRequest /\ [][NextRequest]_vars

\* Requests for a summary or a transcript of one video, on a cache directory
\* that may hold a summary of it.
InitOfSummaryReq ==
    /\ InitExtract
    /\ InitPool
    /\ InitReq
    /\ InitVtt
    /\ InitSumm
    /\ cacheEnabled \in BOOLEAN
    /\ summaryEnabled \in BOOLEAN
    /\ rootExists = TRUE
    /\ \E held \in BOOLEAN :
          /\ dir = IF held THEN (SummaryFileName(VidOK, LangEn, "short") :> 1) ELSE <<>>
          /\ inodes = IF held THEN <<Dump(SummaryDoc(VidOK, LangEn, "short", "s1", FALSE))>>
                              ELSE <<>>
    /\ wr = [w \in Writers |-> IdleWriter]
    /\ committed = <<>>
    /\ lastOp = NoOp
    /\ touched = FALSE
    /\ nops = 0

NextSummaryReq ==
    \E r \in Requests :
        \/ \E u \in ReqUrls, sm \in {"", "short", "long"} : ReqStart(r, u, LangEn, sm)
        \/ ReqSpawn(r)
        \/ \E out \in Extractions, io \in {"ok", "ioerror"} : ReqExtracted(r, out, io)

SpecSummaryReq == InitOfSummaryReq /\ [][NextSummaryReq]_vars

\* Requests in one language with urls of every shape.
ResolveUrls ==
    {VidOK, VidNewline, VidShort, UrlWatch, UrlShort, UrlEmbed, UrlV, UrlWatchShortId,
     UrlOtherSite}

InitOfResolve == InitExtract /\ InitCache /\ InitSumm /\ InitReq /\ InitPool /\ InitVtt

NextResolve ==
    \E r \in Requests :
        \/ \E u \in ResolveUrls : ReqStart(r, u, LangEn, "")
        \/ ReqSpawn(r)
        \/ \E out \in Extractions : ReqExtracted(r, out, "ok")

SpecResolve == InitOfResolve /\ [][NextResolve]_vars

\* Summarize calls and extract_subtitles calls side by side.
InitOfPool == InitExtract /\ InitCache /\ InitSumm /\ InitReq /\ InitPool /\ InitVtt

NextPool ==
    \/ \E k \in SummCalls, found \in BOOLEAN : PoolCall(k, found)
    \/ \E k \in SummCalls, started \in BOOLEAN : PoolRun(k, started)
    \/ \E k \in SummCalls : PoolToolExits(k)
    \/ \E k \in SummCalls : PoolReturns(k)
    \/ \E c \in Calls : Call(c, "valid")
    \/ \E c \in Calls : Enter(c)
    \/ \E c \in Calls : Spawn(c, TRUE)
    \/ \E c \in Calls : ProcExit(c, [rc |-> 0, noSubsInStderr |-> FALSE, vtt |-> "cues"])
    \/ \E c \in Calls : CommunicateReturns(c)

SpecPool == InitOfPool /\ [][NextPool]_vars

\* The two pools with callers that may be cancelled.
InitOfCancel == InitExtract /\ InitCache /\ InitSumm /\ InitReq /\ InitPool /\ InitVtt

NextCancel ==
    \/ \E k \in SummCalls : PoolCall(k, TRUE)
    \/ \E k \in SummCalls : PoolRun(k, TRUE)
    \/ \E k \in SummCalls : PoolToolExits(k)
    \/ \E k \in SummCalls : PoolReturns(k)
    \/ \E k \in SummCalls : PoolCancel(k)
    \/ \E c \in Calls : Call(c, "valid")
    \/ \E c \in Calls : Enter(c)
    \/ \E c \in Calls : Spawn(c, TRUE)
    \/ \E c \in Calls : ProcExit(c, [rc |-> 0, noSubsInStderr |-> FALSE, vtt |-> "cues"])
    \/ \E c \in Calls : ProcDies(c)
    \/ \E c \in Calls : CommunicateReturns(c)
    \/ \E c \in Calls : TimeoutFires(c)
    \/ \E c \in Calls : WaitReturns(c)
    \/ \E c \in Calls : Cancel(c)

SpecCancel == InitOfCancel /\ [][NextCancel]_vars

\* Either pool under a fair scheduler, with one call more than it has
\* slots.  The event loop runs every coroutine that can go on, the timers of
\* wait_for and of subprocess.run expire, and a process that was sent SIGKILL
\* dies; when a caller makes its call, and whether a process exits before
\* its timeout, is left open.  The pools share no state (each has its own
\* semaphore), so a behaviour has the calls of one of them.
FairCalls == 1..(MAX_CONCURRENT_PROCESSES + 1)

FairSummCalls == 1..(MAX_CONCURRENT_COPILOT + 1)

ExtractorQuiet == \A c \in Calls : pc[c] = "idle"

CopilotQuiet == \A k \in SummCalls : kpc[k] = "idle"

InitOfLive == InitExtract /\ InitCache /\ InitSumm /\ InitReq /\ InitPool /\ InitVtt

NextLive ==
    \/ \E k \in FairSummCalls, found \in BOOLEAN : ExtractorQuiet /\ PoolCall(k, found)
    \/ \E k \in FairSummCalls, started \in BOOLEAN : PoolRun(k, started)
    \/ \E k \in FairSummCalls : PoolToolExits(k)
    \/ \E k \in FairSummCalls : PoolReturns(k)
    \/ \E c \in FairCalls, u \in {"valid", "invalid"} : CopilotQuiet /\ Call(c, u)
    \/ \E c \in FairCalls : Enter(c)
    \/ \E c \in FairCalls, started \in BOOLEAN : Spawn(c, started)
    \/ \E c \in FairCalls : ProcExit(c, [rc |-> 0, noSubsInStderr |-> FALSE, vtt |-> "cues"])
    \/ \E c \in FairCalls : ProcExit(c, [rc |-> 1, noSubsInStderr |-> FALSE, vtt |-> "none"])
    \/ \E c \in FairCalls : ProcDies(c)
    \/ \E c \in FairCalls : CommunicateReturns(c)
    \/ \E c \in FairCalls : TimeoutFires(c)
    \/ \E c \in FairCalls : WaitReturns(c)

Fairness ==
    /\ \A c \in FairCalls :
          /\ WF_vars(Enter(c))
          /\ WF_vars(\E started \in BOOLEAN : Spawn(c, started))
          /\ WF_vars(CommunicateReturns(c))
          /\ WF_vars(TimeoutFires(c))
          /\ WF_vars(ProcDies(c))
          /\ WF_vars(WaitReturns(c))
    /\ \A k \in FairSummCalls :
          /\ WF_vars(\E started \in BOOLEAN : PoolRun(k, started))
          /\ WF_vars(PoolToolExits(k))
          /\ WF_vars(PoolReturns(k))

SpecLive == InitOfLive /\ [][NextLive]_vars /\ Fairness

\* parse_vtt on subtitle files of up to MaxLines lines.
MaxLines == 4

Time1 == [hh |-> <<>>, mm |-> 0, ss |-> 1, ms |-> 0]

Time5 == [hh |-> <<0>>, mm |-> 0, ss |-> 5, ms |-> 500]

VttLines ==
    {[ts |-> <<>>, toks |-> t] :
        t \in {<<>>, <<"WEBVTT">>, <<"2">>, <<"hello">>, <<"<", "c", ">">>,
                <<"<", "c">>, <<"x", ">">>}}
      \cup {[ts |-> <<Time1, Time5>>, toks |-> <<>>], [ts |-> <<Time5, Time1>>, toks |-> <<>>]}

RECURSIVE SeqsUpTo(_, _)
SeqsUpTo(S, n) ==
    IF n = 0 THEN {<<>>}
    ELSE LET shorter == SeqsUpTo(S, n - 1) IN
         shorter \cup {Append(q, x) : q \in shorter, x \in S}

InitOfVtt ==
    /\ InitExtract
    /\ InitCache
    /\ InitSumm
    /\ InitReq
    /\ InitPool
    /\ vtt \in SeqsUpTo(VttLines, MaxLines)
    /\ parsed = NotParsed

NextVtt == Parse

SpecVtt == InitOfVtt /\ [][NextVtt]_vars

\* One summarize call.
InitOfSumm == InitExtract /\ InitCache /\ InitSumm /\ InitReq /\ InitPool /\ InitVtt

NextSumm ==
    \/ \E length \in {"short", "long", "huge"}, written, found \in BOOLEAN :
          Summarize(length, written, found)
    \/ \E frag \in Fragments : ToolWrites(frag)
    \/ \E code \in {0, 1}, err \in StderrTexts : ToolEnds("exit", code, err)
    \/ ToolEnds("timeout", -1, <<>>)
    \/ ToolEnds("missing", -1, <<>>)

SpecSumm == InitOfSumm /\ [][NextSumm]_vars

(***************************************************************************)
(* Properties of the extractor                                             *)
(***************************************************************************)
LiveCalls == {c \in Calls : Live(c)}

SlotHolders == {c \in Calls : HoldsSlot(c)}

\* C1: at any instant at most MAX_CONCURRENT_PROCESSES downloader
\* subprocesses have been spawned and have not exited, however many calls
\* are in flight: every such subprocess belongs to a call that holds one of
\* the MAX_CONCURRENT_PROCESSES slots, so that a further call's subprocess
\* is not spawned before a holder has released its slot.
C1_PoolBound ==
    /\ Cardinality(LiveCalls) <= MAX_CONCURRENT_PROCESSES
    /\ LiveCalls \subseteq SlotHolders
    /\ Cardinality(SlotHolders) + sem = MAX_CONCURRENT_PROCESSES
    /\ \A c \in Calls : pc[c] = "waiting" => Cardinality(SlotHolders) = MAX_CONCURRENT_PROCESSES

\* Two subprocesses are running and a third call is waiting for a slot.
C1_Witness ==
    /\ Cardinality({c \in Calls : proc[c] = "running"}) = MAX_CONCURRENT_PROCESSES
    /\ \E c \in Calls : pc[c] = "waiting"

\* C8: when the wait for the subprocess times out, the process is killed at
\* once and the call ends only after the process has exited; it ends with the
\* extractor's TimeoutError, its temporary directory removed and its slot
\* released; no other path ends in TimeoutError.
C8_Timeout ==
    \A c \in Calls :
        /\ (waitOutcome[c] = "timeout" /\ pc[c] # "done") =>
              /\ pc[c] = "reaping"
              /\ proc[c] \in {"killed", "exited"}
        /\ (waitOutcome[c] = "timeout" /\ pc[c] = "done") =>
              /\ result[c] = "TimeoutError"
              /\ proc[c] = "exited"
              /\ ~tmpdir[c]
              /\ Cardinality(SlotHolders \ {c}) + sem = MAX_CONCURRENT_PROCESSES
        /\ result[c] = "TimeoutError" => waitOutcome[c] = "timeout"

\* A call whose subprocess never exited by itself has ended in TimeoutError.
C8_Witness ==
    \E c \in Calls :
        /\ pc[c] = "done"
        /\ result[c] = "TimeoutError"
        /\ exitInfo[c] = NoExit

(***************************************************************************)
(* Properties of the cache                                                 *)
(***************************************************************************)
\* What a read of file `name` returns when it holds the document of the
\* last completed rename, and a miss when no rename has completed.
Stored(name, hit(_)) == IF name \in DOMAIN committed THEN hit(committed[name]) ELSE Miss

\* C2: whatever step a set or set_summary call has reached or was
\* interrupted at, a get / get_summary returns the record of the last
\* completed rename for its key, or a miss when there was none: never a
\* truncated or partial record, and never the record of a write that has not
\* been renamed into place.
C2_AtomicWrite ==
    /\ \A lang \in {LangEn, LangPtBR} :
          Get(VidOK, lang) = Stored(CacheFileName(VidOK, lang), Hit)
    /\ GetSummary(VidOK, LangEn, "short")
          = Stored(SummaryFileName(VidOK, LangEn, "short"), HitSummary)

\* A set was interrupted after it had written part of a different record to
\* its temporary file, and a later get returned the stored record.
C2_Witness ==
    \E lang \in {LangEn, LangPtBR} :
        LET name == CacheFileName(VidOK, lang)
            t == TempPath(name) IN
        /\ wr[1].pc = "idle"
        /\ name \in DOMAIN committed
        /\ t \in DOMAIN dir
        /\ inodes[dir[t]] # <<>>
        /\ inodes[dir[t]][1].doc # committed[name]
        /\ Len(inodes[dir[t]]) < NChunks(inodes[dir[t]][1].doc)
        /\ lastOp.op = "get"
        /\ lastOp.lang = lang
        /\ lastOp.res = Hit(committed[name])

\* C3 (as stated): with concurrent set calls for one key every get returns
\* a miss or the complete record of one writer, and once all writers have
\* finished the stored entry is the complete record of the writer whose
\* rename happened last.
C3_LastWriterWins ==
    LET name == CacheFileName(VidOK, LangEn) IN
    /\ Get(VidOK, LangEn) \in
          {Miss} \cup {Hit(TranscriptDoc(VidOK, LangEn, r.gen, r.segs)) : r \in Records}
    /\ ((\A w \in Writers : wr[w].pc = "idle") /\ name \in DOMAIN committed)
          => Get(VidOK, LangEn) = Hit(committed[name])

\* C4 (as stated): with the cache switched on, an operation on a key whose
\* video id is not exactly VIDEO_ID_LEN characters of [A-Za-z0-9_-], whose
\* language is no language tag, or whose summary length is not one of
\* short, medium and long ends in ValueError without any filesystem call;
\* and no operation touches a path outside the cache root.
C4_InvalidKeyRejected ==
    LET ExactVideoId(s) == Len(s) = VIDEO_ID_LEN /\ AllOf(s, 1, Len(s), IdChars)
        ExactLanguage(s) ==
            \E b \in 2..3 :
                /\ Len(s) >= b
                /\ AllOf(s, 1, b, LowerCh)
                /\ \/ Len(s) = b
                   \/ /\ Len(s) \in (b + 3)..(b + 5)
                      /\ s[b + 1] = "-"
                      /\ AllOf(s, b + 2, Len(s), LowerCh \cup UpperCh)
        OfSummary == lastOp.op \in {"get_summary", "set_summary"}
        Enabled == IF OfSummary THEN summaryEnabled ELSE cacheEnabled
        Invalid ==
            \/ ~ExactVideoId(lastOp.vid)
            \/ ~ExactLanguage(lastOp.lang)
            \/ OfSummary /\ lastOp.len \notin {"short", "medium", "long"}
    IN  /\ (lastOp.op # "none" /\ Enabled /\ Invalid)
              => (lastOp.res = Raise("ValueError") /\ ~lastOp.io)
        /\ ~touched

\* C10 (as stated): a get or get_summary of an existing cache file whose
\* content is not a well-formed record returns a miss and raises nothing.
C10_CorruptIsMiss ==
    LET tf == JsonLoad(inodes[dir[CacheFileName(VidOK, LangEn)]])
        sf == JsonLoad(inodes[dir[SummaryFileName(VidOK, LangEn, "short")]])
        WellFormedTranscript ==
            /\ tf.exc = ""
            /\ tf.doc.top = "dict"
            /\ tf.doc.segsKind = "list"
            /\ \A i \in 1..Len(tf.doc.segs) : tf.doc.segs[i].k = "ok"
        WellFormedSummary == sf.exc = "" /\ sf.doc.top = "dict" /\ sf.doc.sumKind = "string"
    IN  /\ (lastOp.op = "get" /\ ~WellFormedTranscript) => lastOp.res = Miss
        /\ (lastOp.op = "get_summary" /\ ~WellFormedSummary) => lastOp.res = Miss

(***************************************************************************)
(* Properties of the summarizer                                            *)
(***************************************************************************)
\* The tool has exited with code 0 and some output, and summarize has ended.
CleanExit == spc = "done" /\ tool = "exit" /\ rc = 0 /\ Strip(stdout) # <<>>

\* The summary that _extract_summary_from_output takes from the tool's output.
Extracted == ExtractSummaryFromOutput(Strip(stdout))

\* "ignore previous instructions" in any letter case, the words separated
\* by whitespace.
IgnorePhraseIn(t) ==
    ReSearch(<<Tok({"ignore", "Ignore", "IGNORE"}), Ws1,
               Tok({"previous", "Previous", "PREVIOUS"}), Ws1,
               Tok({"instructions", "Instructions", "INSTRUCTIONS"})>>, t, FALSE)

\* One of the shell-metacharacter patterns: ${, a backquoted command,
\* ; rm followed by whitespace, | bash, exec( and eval(.
ShellPatternIn(t) ==
    \/ \E j \in 1..Len(t) : t[j] \in {"${", "exec(", "eval("}
    \/ \E i \in 1..Len(t), j \in 1..Len(t) :
          /\ i + 1 < j
          /\ t[i] = Tick
          /\ t[j] = Tick
          /\ \A q \in (i + 1)..(j - 1) : t[q] # Tick
    \/ ReSearch(<<Tok({";"}), Rep("ws", 0), Tok({"rm"}), Tok(Ws)>>, t, FALSE)
    \/ ReSearch(<<Tok({"|"}), Rep("ws", 0), Tok({"bash"})>>, t, FALSE)

\* A URL: a scheme followed by at least one character that is no whitespace.
URLIn(t) == \E j \in 1..(Len(t) - 1) : t[j] \in Schemes /\ t[j + 1] \notin Ws

\* C5 (amended): whenever the summary extracted from the tool's output
\* still contains, after the redaction of URLs, the phrase "ignore previous
\* instructions" in any letter case (or another listed meta-instruction
\* phrase), summarize fails with SummarizationFailedError and returns no
\* summary text.
C5_MetaInstruction ==
    LET redacted == RedactURLs(Extracted) IN
    (CleanExit /\ (IgnorePhraseIn(redacted) \/ HasMetaInstruction(redacted)))
        => sres = SRaise("SummarizationFailedError")

\* The tool answered with the phrase in mixed case and nothing else that
\* the validation rejects, and summarize failed.
C5_Witness ==
    /\ CleanExit
    /\ IgnorePhraseIn(RedactURLs(Extracted))
    /\ \E j \in 1..Len(Extracted) : Extracted[j] = "INSTRUCTIONS"
    /\ ~ShellPatternIn(RedactURLs(Extracted))
    /\ sres = SRaise("SummarizationFailedError")

\* C5 (as stated): whenever the text returned by the tool contains the
\* phrase in any letter case, summarize fails with SummarizationFailedError.
C5_AsStated ==
    (CleanExit /\ IgnorePhraseIn(stdout)) => sres.kind = "SummarizationFailedError"

\* C6 (amended): for every extracted summary that contains one or more URLs
\* and no shell-metacharacter or meta-instruction pattern, summarize
\* succeeds and every URL has been replaced by the marker [URL]: the
\* returned text, up to the "..." that the cut at MAX_WORDS words appends,
\* contains no URL, and it contains the marker unless it was cut.
C6_URLsRedacted ==
    LET text == sres.text
        cut == text # <<>> /\ text[Len(text)] = Ellipsis
        body == IF cut THEN SubSeq(text, 1, Len(text) - 1) ELSE text
    IN  (CleanExit /\ URLIn(Extracted) /\ ~HasDangerous(Extracted)
           /\ ~HasMetaInstruction(Extracted))
          => /\ sres.kind = "ok"
             /\ ~URLIn(body)
             /\ cut \/ \E j \in 1..Len(text) : text[j] = URL_MARKER

\* The tool's summary held a URL next to other words, and summarize
\* returned it with the marker in the URL's place.
C6_Witness ==
    /\ CleanExit
    /\ URLIn(Extracted)
    /\ sres.kind = "ok"
    /\ \E j \in 1..Len(sres.text) : sres.text[j] = URL_MARKER
    /\ \E j \in 1..Len(sres.text) : sres.text[j] = "x"

\* C6 (as stated): ... summarize succeeds and the returned text contains no
\* URL.
C6_AsStated ==
    (CleanExit /\ URLIn(Extracted) /\ ~HasDangerous(Extracted)
       /\ ~HasMetaInstruction(Extracted))
      => (sres.kind = "ok" /\ ~URLIn(sres.text))

\* C7 (amended): for every extracted summary that still contains a
\* shell-metacharacter pattern after the redaction of URLs, summarize fails
\* with SummarizationFailedError; no returned summary contains one of these
\* patterns.
C7_ShellPattern ==
    /\ (CleanExit /\ ShellPatternIn(RedactURLs(Extracted)))
          => sres = SRaise("SummarizationFailedError")
    /\ (spc = "done" /\ sres.kind = "ok") => ~ShellPatternIn(sres.text)

\* The tool's summary held ${ outside any URL and no meta-instruction, and
\* summarize failed.
C7_Witness ==
    /\ CleanExit
    /\ \E j \in 1..Len(RedactURLs(Extracted)) : RedactURLs(Extracted)[j] = "${"
    /\ ~IgnorePhraseIn(Extracted)
    /\ sres = SRaise("SummarizationFailedError")

\* C7 (as stated): for every extracted summary that contains a
\* shell-metacharacter pattern, wherever in the text, summarize fails.
C7_AsStated ==
    /\ (CleanExit /\ ShellPatternIn(Extracted)) => sres.kind = "SummarizationFailedError"
    /\ (spc = "done" /\ sres.kind = "ok") => ~ShellPatternIn(sres.text)

\* C9 (as stated): a tool that does not exit within the timeout yields
\* CopilotTimeoutError, a binary that cannot be located yields
\* CopilotNotFoundError, and a non-zero exit yields SummarizationFailedError.
C9_ErrorKinds ==
    spc = "done" =>
        /\ tool = "timeout" => sres.kind = "CopilotTimeoutError"
        /\ tool \in {"notfound", "missing"} => sres.kind = "CopilotNotFoundError"
        /\ (tool = "exit" /\ rc # 0) => sres.kind = "SummarizationFailedError"


\* A step of a clear(vid, lang) call.  A clear that repeats the call before
\* it with no set completed in between finds nothing to unlink, and is left
\* out.
ClearCalled(vid, lang) ==
    /\ lastOp'.op = "clear"
    /\ lastOp'.vid = vid
    /\ lastOp'.lang = lang
    /\ lastOp' # lastOp

\* The cache file names of video vid: its transcripts and its summaries.
EntryNames(vid) ==
    {CacheFileName(vid, l) : l \in {LangEn, LangPtBR}}
        \cup {SummaryFileName(vid, LangEn, "short")}

\* The files other than those named keep their names and contents.
OthersKept(names) ==
    /\ DOMAIN dir' \cup names = DOMAIN dir \cup names
    /\ \A n \in DOMAIN dir \ names :
          n \in DOMAIN dir' /\ inodes'[dir'[n]] = inodes[dir[n]]

\* C11: after clear(video_id) without a language no entry of that video
\* remains, transcript or summary, while the entries of other videos are
\* unchanged; after clear() with no argument no entry remains at all.
C11_ClearRemovesAll ==
    [][/\ \A v \in ClearVids :
             ClearCalled(v, <<>>) =>
                 /\ DOMAIN dir' \cap EntryNames(v) = {}
                 /\ OthersKept(EntryNames(v))
       /\ ClearCalled(<<>>, <<>>) =>
             \A v \in ClearVids : DOMAIN dir' \cap EntryNames(v) = {}]_vars

\* C12: clear(video_id, language) removes the transcript entry of that key
\* and nothing else: the transcripts in other languages, the entries of
\* other videos and the summaries of the same key keep their names and
\* contents, which is what a later get_summary reads.
C12_ClearOne ==
    [][\A v \in ClearVids :
          ClearCalled(v, LangEn) =>
              /\ lastOp'.res = Returned
              /\ cacheEnabled => CacheFileName(v, LangEn) \notin DOMAIN dir'
              /\ OthersKept({CacheFileName(v, LangEn)})]_vars

C12_Witness ==
    /\ lastOp = Op("get_summary", VidOK, LangEn, "short", Res("hit", "", <<>>, FALSE, "s1"), TRUE)
    /\ CacheFileName(VidOK, LangEn) \in DOMAIN committed
    /\ CacheFileName(VidOK, LangEn) \notin DOMAIN dir


\* A string of exactly 11 characters of the video id alphabet.
IsToken(x) == Len(x) = VIDEO_ID_LEN /\ \A i \in 1..Len(x) : x[i] \in IdChars

\* The tokens that follow one of the url heads in u.
EmbeddedTokens(u) ==
    {SubSeq(u, i + 1, i + VIDEO_ID_LEN) :
        i \in {j \in 1..Len(u) :
                  /\ u[j] \in {"youtube.com/watch?v=", "youtu.be/", "youtube.com/embed/",
                               "youtube.com/v/"}
                  /\ j + VIDEO_ID_LEN <= Len(u)
                  /\ IsToken(SubSeq(u, j + 1, j + VIDEO_ID_LEN))}}

\* C13: for every input _extract_video_id returns exactly 11 characters of
\* [A-Za-z0-9_-] or fails with InvalidURLError: a bare token comes back
\* unchanged, a url of a recognised shape gives the token embedded in it, and
\* every other string fails.
C13_VideoIdShape ==
    \A r \in Requests :
        req[r].pc # "idle" /\ req[r].exc # "HTTPException" =>
            LET u == req[r].url IN
            IF IsToken(u) THEN req[r].vid = u /\ req[r].exc # "InvalidURLError"
            ELSE IF EmbeddedTokens(u) # {}
              THEN req[r].vid \in EmbeddedTokens(u) /\ req[r].exc # "InvalidURLError"
            ELSE req[r].exc = "InvalidURLError" /\ req[r].status = 400


\* Request q has stored the transcript that it extracted under the key of
\* request r.
StoredFor(q, r) ==
    /\ req[q].stored
    /\ req[q].vid = req'[r].vid
    /\ req[q].lang = req'[r].lang

\* C15: with the cache enabled, once a request has missed, extracted and
\* stored a transcript, the file of its key is there and get reads from it
\* the segments and the is_generated flag that were stored, and a later
\* request for that key is answered from the cache with stored values,
\* without the extractor being invoked.  No clear call is made in
\* SpecRequest.
C15_CacheRoundTrip ==
    [][\A r \in Requests :
          /\ (req[r].pc = "running" /\ req'[r].stored) =>
                /\ cacheEnabled'
                /\ ~ValidateCacheParamsRaises(req[r].vid, req[r].lang)
                /\ CacheFileName(req[r].vid, req[r].lang) \in DOMAIN dir'
                /\ ReadTranscript(inodes'[dir'[CacheFileName(req[r].vid, req[r].lang)]])
                      = Res("hit", "", req'[r].segs, req'[r].gen, "")
          /\ (req[r].pc = "idle" /\ req'[r].pc # "idle"
                 /\ \E q \in Requests \ {r} : StoredFor(q, r)) =>
                /\ req'[r].pc = "done"
                /\ req'[r].status = 200
                /\ req'[r].cached
                /\ ~req'[r].spawned
                /\ \E q \in Requests \ {r} :
                      /\ StoredFor(q, r)
                      /\ req[q].segs = req'[r].segs
                      /\ req[q].gen = req'[r].gen]_vars

C15_Witness ==
    \E q, r \in Requests :
        /\ req[q].stored /\ req[q].segs = Segs2 /\ req[q].gen
        /\ req[r].cached /\ req[r].status = 200 /\ ~req[r].spawned
        /\ req[r].vid = req[q].vid /\ req[r].lang = req[q].lang
        /\ req[r].segs = Segs2 /\ req[r].gen
        /\ req[r].url # req[q].url

\* A language code of the documented form: two or three lower-case letters,
\* then possibly a hyphen and two to four letters, and nothing else.
WellFormedLanguage(l) ==
    \E b \in 2..3 :
        /\ Len(l) >= b
        /\ \A i \in 1..b : l[i] \in LowerCh
        /\ \/ Len(l) = b
           \/ /\ Len(l) \in (b + 3)..(b + 5)
              /\ l[b + 1] = "-"
              /\ \A i \in (b + 2)..Len(l) : l[i] \in LowerCh \cup UpperCh

\* C16: a request whose language does not match the pattern fails with a
\* validation error before a cache path is derived and before a subprocess
\* is spawned: no downloader is ever started with an unvalidated language.
C16_LanguageValidated ==
    \A r \in Requests :
        (req[r].pc # "idle" /\ ~WellFormedLanguage(req[r].lang)) =>
            /\ req[r].pc = "done"
            /\ req[r].status = 400
            /\ ~req[r].spawned
            /\ ~req[r].stored


\* C17: when the downloader exits with code 0 and its caption file yields
\* no segment, extract_subtitles fails with NoSubtitlesFoundError and not
\* with the generic extraction failure.
C17_NoSegmentsIsNoSubtitles ==
    \A c \in Calls :
        (pc[c] = "done" /\ waitOutcome[c] = "returned"
            /\ exitInfo[c].rc = 0 /\ exitInfo[c].vtt = "nocues") =>
                result[c] = "NoSubtitlesFoundError"

\* C19: every way out of extract_subtitles releases the slot of the call
\* and removes its working directory: a call that has ended holds neither,
\* and when no call is in flight every slot is free and no working
\* directory exists.
C19_NothingLeftBehind ==
    /\ \A c \in Calls : pc[c] \in {"idle", "done"} => ~tmpdir[c]
    /\ sem + Cardinality({c \in Calls : pc[c] \in {"acquired", "spawn", "communicate",
                                                   "reaping"}})
          = MAX_CONCURRENT_PROCESSES
    /\ (\A c \in Calls : pc[c] \in {"idle", "done"}) =>
          /\ sem = MAX_CONCURRENT_PROCESSES
          /\ waiters = <<>>
          /\ \A c \in Calls : ~tmpdir[c]

C19_Witness ==
    /\ \A c \in Calls : pc[c] = "done"
    /\ \E c \in Calls : result[c] = "TimeoutError"
    /\ \E c \in Calls : result[c] = "InvalidURLError"
    /\ \E c \in Calls : result[c] = "ok"
    /\ sem = MAX_CONCURRENT_PROCESSES


\* Every line of t that is not blank starts with one of the words that mark
\* narration or usage statistics.
OnlyNarration(t) ==
    LET lines == SplitLines(t, 1, <<>>) IN
    \A i \in 1..Len(lines) :
        \/ \A j \in 1..Len(lines[i]) : lines[i][j] \in Ws
        \/ \E j \in 1..Len(lines[i]) :
              /\ \A k \in 1..(j - 1) : lines[i][k] \in Ws
              /\ lines[i][j] \in {"Reading", "Fetching", "Total usage", "Total duration",
                                  "Usage by model", "model:", "Est."}

\* C18: when the tool exits with code 0 and nothing is left of its output
\* once the narration lines and everything from the first usage statistics
\* line on are discarded, summarize fails with SummarizationFailedError; it
\* never returns narration or statistics as the summary.
C18_NoSummaryFails ==
    (spc = "done" /\ tool = "exit" /\ rc = 0 /\ OnlyNarration(stdout)) =>
        sres = SRaise("SummarizationFailedError")

\* C20: on every way out of summarize after its temporary file was created,
\* a failure while writing the transcript into it included, the file is
\* removed and the slot, if it was acquired, is released.
C20_TempFileRemoved ==
    spc = "done" => (~sfile /\ csem = MAX_CONCURRENT_COPILOT)


\* The summarize calls that hold a slot of the summarizer's semaphore.
CopilotHolders == {k \in SummCalls : kpc[k] \in {"acquired", "running"}}

\* C14: at most MAX_CONCURRENT_COPILOT tool processes run at any time, and
\* the summarization pool is independent of the extraction pool: each pool
\* accounts for its own slots, and a call of one pool waits only while the
\* slots of that pool are all held.
C14_CopilotPoolBound ==
    /\ Cardinality({k \in SummCalls : ktool[k] = "running"}) <= MAX_CONCURRENT_COPILOT
    /\ {k \in SummCalls : ktool[k] = "running"} \subseteq CopilotHolders
    /\ csem + Cardinality(CopilotHolders) = MAX_CONCURRENT_COPILOT
    /\ sem + Cardinality({c \in Calls : pc[c] \in {"acquired", "spawn", "communicate",
                                                   "reaping"}})
          = MAX_CONCURRENT_PROCESSES
    /\ \A k \in SummCalls :
          kpc[k] = "waiting" => Cardinality(CopilotHolders) = MAX_CONCURRENT_COPILOT
    /\ \A c \in Calls :
          pc[c] = "waiting" =>
              Cardinality({d \in Calls : pc[d] \in {"acquired", "spawn", "communicate",
                                                    "reaping"}})
                  = MAX_CONCURRENT_PROCESSES

\* A summarize call waits for the one slot of its pool behind a running
\* tool, while an extraction runs and the extraction pool has a free slot.
C14_Witness ==
    /\ \E k \in SummCalls : kpc[k] = "waiting"
    /\ \E k \in SummCalls : ktool[k] = "running"
    /\ \E c \in Calls : pc[c] = "communicate"
    /\ sem > 0


\* C21: a request for a summary that has the transcript, misses the summary
\* cache and has a transcript text within the length limit invokes summarize
\* exactly once (the transcripts of the model are all within the limit).
C21_SummarizeOnce ==
    \A r \in Requests :
        (req[r].summary # "" /\ req[r].sumLooked = "miss") => req[r].nsum = 1

\* C22: a call cancelled after its process was spawned has the process
\* terminated no later than its slot is released: a process that is still
\* running belongs to a call that holds a slot of its pool.
C22_CancelTerminates ==
    /\ \A c \in Calls : proc[c] = "running" => HoldsSlot(c)
    /\ \A k \in SummCalls : ktool[k] = "running" => kpc[k] = "running"

\* C23: an error of the summarizer does not carry what the tool wrote to its
\* standard error: a run that differs from this one only in that text, and so
\* ends with the same kind of error, ends with the same message.
C23_StderrNotDisclosed ==
    (spc = "done" /\ tool = "exit")
        => \A err \in StderrTexts : CopilotMessage(tool, rc, stdout, err) = smsg

\* Request q has missed the cache and is on its way to the extractor or past
\* it, for the key of request r.
MissedFor(q, r) ==
    /\ req[q].pc \in {"extract", "running"} \/ req[q].stored
    /\ req[q].vid = req[r].vid
    /\ req[q].lang = req[r].lang

\* C24: requests that miss the cache for the same key while another one is
\* under way are not coalesced: each one spawns its own extraction, and each
\* one that extracted a transcript writes it, so that after the later of two
\* set calls the entry holds the record of that call.
C24_NotCoalesced ==
    [][\A r \in Requests :
          /\ (req[r].pc = "extract" /\ req'[r].pc # "extract") => req'[r].spawned
          /\ (req[r].pc = "running" /\ req'[r].stored) =>
                /\ req[r].spawned /\ ~req[r].cached
                /\ ReadTranscript(inodes'[dir'[CacheFileName(req[r].vid, req[r].lang)]])
                      = Res("hit", "", req'[r].segs, req'[r].gen, "")
          /\ (req[r].pc = "idle" /\ req'[r].pc # "idle" /\ req'[r].status # 400
                 /\ ~(CacheFileName(req'[r].vid, req'[r].lang) \in DOMAIN dir)) =>
                req'[r].pc = "extract"]_vars

C24_Witness ==
    \E q, r \in Requests :
        /\ q # r
        /\ MissedFor(q, r)
        /\ req[q].stored /\ req[r].stored
        /\ req[q].spawned /\ req[r].spawned
        /\ ~req[q].cached /\ ~req[r].cached
        /\ req[q].segs = Segs1 /\ req[r].segs = Segs2
        /\ ReadTranscript(inodes[dir[CacheFileName(req[r].vid, req[r].lang)]])
              = Res("hit", "", Segs2, req[r].gen, "")

\* C25: clear validates each component it is given before it derives a file
\* name or a file pattern from it, as get, set, get_summary and set_summary
\* do: with the cache enabled, a call with a video id that is not a string of
\* 11 characters of the id alphabet raises ValueError and unlinks nothing.
C25_ClearValidates ==
    [][(/\ lastOp'.op = "clear"
        /\ lastOp' # lastOp
        /\ cacheEnabled
        /\ lastOp'.vid # <<>>
        /\ ~IsToken(lastOp'.vid))
          => (lastOp'.res = Raise("ValueError") /\ dir' = dir)]_vars

\* C26: extract_subtitles resolves the video identifier before it acquires a
\* slot: a call with an input that no url pattern matches neither waits for
\* a slot nor holds one.
C26_ResolvedBeforeSlot ==
    \A c \in Calls : url[c] = "invalid" => (pc[c] # "waiting" /\ ~HoldsSlot(c))

\* C27: under a fair scheduler, with every process exiting or being killed
\* at its timeout, every extract_subtitles call and every summarize call
\* that was made comes to its end, and every call that waits for a slot
\* gets one.
C27_Terminates ==
    /\ \A c \in FairCalls :
          /\ (pc[c] # "idle") ~> (pc[c] = "done")
          /\ (pc[c] = "waiting") ~> (pc[c] = "acquired")
    /\ \A k \in FairSummCalls :
          /\ (kpc[k] # "idle") ~> (kpc[k] = "done")
          /\ (kpc[k] = "waiting") ~> (kpc[k] = "acquired")

\* All extract_subtitles calls have ended, one of them after a timeout and
\* one with what its process left, and the slots are free again.
C27_Witness ==
    /\ \A c \in FairCalls : pc[c] = "done"
    /\ \E c \in FairCalls : result[c] = "TimeoutError"
    /\ \E c \in FairCalls : waitOutcome[c] = "returned"
    /\ sem = MAX_CONCURRENT_PROCESSES /\ waiters = <<>>

(***************************************************************************)
(* Properties of the parser                                                *)
(***************************************************************************)
\* The pieces of text between the blanks that join the lines.
RECURSIVE JoinedLines(_, _)
JoinedLines(text, cur) ==
    IF text = <<>> THEN <<cur>>
    ELSE IF Head(text) = " " THEN <<cur>> \o JoinedLines(Tail(text), <<>>)
    ELSE JoinedLines(Tail(text), Append(cur, Head(text)))

\* One of the lines that make up text consists of digits only.
DigitsLineIn(text) ==
    LET ls == JoinedLines(text, <<>>) IN
    \E j \in 1..Len(ls) :
        ls[j] # <<>> /\ \A q \in 1..Len(ls[j]) : ls[j][q] \in {"1", "2"}

\* Line i of lines stands where a cue index stands: it consists of digits
\* only, the line after it is a timing line, and the line before it is none.
CueIndexAt(lines, i) ==
    /\ lines[i].ts = <<>>
    /\ lines[i].toks # <<>>
    /\ \A q \in 1..Len(lines[i].toks) : lines[i].toks[q] \in {"1", "2"}
    /\ i < Len(lines) /\ lines[i + 1].ts # <<>>
    /\ i > 1 => lines[i - 1].ts = <<>>

\* C28: a line that consists of digits only (a cue index) is in no segment's
\* text, whether or not a blank line stands between it and the cue before:
\* when the digits-only lines of the content are all cue indexes, no text
\* holds a digits-only line.
C28_NoCueIndexInText ==
    (/\ parsed.err = ""
     /\ \A i \in 1..Len(vtt) :
           (vtt[i].ts = <<>> /\ vtt[i].toks \in {<<"1">>, <<"2">>}) => CueIndexAt(vtt, i))
        => \A j \in 1..Len(parsed.segments) : ~DigitsLineIn(parsed.segments[j].text)

\* text holds a "<" with a ">" somewhere after it.
TagIn(text) == \E a, b \in 1..Len(text) : a < b /\ text[a] = "<" /\ text[b] = ">"

\* The timing lines of the content after its header, in their order.
Timings(lines) ==
    LET heads == {i \in 1..Len(lines) : lines[i].ts = <<>> /\ lines[i].toks = <<"WEBVTT">>}
        from == IF heads = {} THEN 1 ELSE (CHOOSE i \in heads : \A h \in heads : i <= h) + 1 IN
    SelectSeq(SubSeq(lines, from, Len(lines)), LAMBDA l : l.ts # <<>>)

\* a is b with some of its elements left out.
RECURSIVE IsSubseq(_, _)
IsSubseq(a, b) ==
    IF a = <<>> THEN TRUE
    ELSE IF b = <<>> THEN FALSE
    ELSE IF Head(a) = Head(b) THEN IsSubseq(Tail(a), Tail(b))
    ELSE IsSubseq(a, Tail(b))

\* C29: every segment that parse_vtt returns starts at 0 or later and ends no
\* earlier than it starts, and has a text that is not empty and holds no
\* markup tag; the segments come in the order of their cues.
C29_SegmentsWellFormed ==
    parsed.err = "" =>
        /\ \A j \in 1..Len(parsed.segments) :
              LET seg == parsed.segments[j] IN
              /\ seg.start >= 0
              /\ seg.end >= seg.start
              /\ seg.text # <<>>
              /\ ~TagIn(seg.text)
        /\ IsSubseq([j \in 1..Len(parsed.segments) |->
                         <<parsed.segments[j].start, parsed.segments[j].end>>],
                     [i \in 1..Len(Timings(vtt)) |->
                         <<TimeOf(Timings(vtt)[i].ts[1]), TimeOf(Timings(vtt)[i].ts[2])>>])

(***************************************************************************)
(* Properties of the length check                                          *)
(***************************************************************************)
\* The words of text, the dots that end the text taken off the last one.
WordsKept(text) ==
    LET w == Words(text, 1, <<>>)
        last == w[Len(w)] IN
    IF w # <<>> /\ last[Len(last)] = "..."
      THEN [w EXCEPT ![Len(w)] = SubSeq(last, 1, Len(last) - 1)]
      ELSE w

\* C30: a summary that passed the content checks and has more than
\* MAX_WORDS words is cut, not rejected: summarize returns its first
\* MAX_WORDS words in their order; and no summary that summarize returns has
\* more than MAX_WORDS words.
C30_TruncatedNotRejected ==
    /\ (spc = "done" /\ sres.kind = "ok")
          => WordCount(Words(sres.text, 1, <<>>), 1) <= MAX_WORDS
    /\ LET redacted == RedactURLs(Extracted) IN
       (/\ CleanExit
        /\ ~HasDangerous(redacted)
        /\ ~HasMetaInstruction(redacted)
        /\ WordCount(Words(redacted, 1, <<>>), 1) > MAX_WORDS)
          => /\ sres.kind = "ok"
             /\ WordsKept(sres.text) = FirstWords(Words(redacted, 1, <<>>), 1, MAX_WORDS)
             /\ WordCount(Words(sres.text, 1, <<>>), 1) = MAX_WORDS

\* summarize has returned a summary of MAX_WORDS words that ends in the dots
\* of the cut, the tool having written more words than that.
C30_Witness ==
    /\ CleanExit
    /\ sres.kind = "ok"
    /\ sres.text[Len(sres.text)] = "..."
    /\ WordCount(Words(sres.text, 1, <<>>), 1) = MAX_WORDS
    /\ WordCount(Words(Extracted, 1, <<>>), 1) > MAX_WORDS

(***************************************************************************)
(* Properties of the length argument                                       *)
(***************************************************************************)
\* C31: summarize with a length other than short, medium and long fails
\* with InvalidSummaryLengthError, and at no time of that call is there a
\* temporary file, a slot taken or a subprocess.
C31_InvalidLengthFailsFirst ==
    [][(spc' # "idle" /\ slen' \notin {"short", "medium", "long"})
          => /\ spc' = "done"
             /\ sres'.kind = "InvalidSummaryLengthError"
             /\ ~sfile'
             /\ csem' = MAX_CONCURRENT_COPILOT
             /\ tool' = "none"
             /\ stdout' = <<>>]_vars

C31_Witness ==
    /\ spc = "done"
    /\ slen = "huge"
    /\ sres.kind = "InvalidSummaryLengthError"
    /\ ~sfile /\ csem = MAX_CONCURRENT_COPILOT /\ tool = "none"

(***************************************************************************)
(* Properties of the cache file paths                                      *)
(***************************************************************************)
\* The key of the call that writer w is in.
KeyOfWriter(w) == <<wr[w].op, wr[w].vid, wr[w].lang, wr[w].len>>

\* The key of a stored record.
KeyOfDoc(doc) ==
    <<IF doc.sumKind = "absent" THEN "set" ELSE "set_summary", doc.vid, doc.lang, doc.len>>

Writing == {w \in Writers : wr[w].pc # "idle"}

\* C32: the cache paths of validated keys lie inside the cache root and two
\* different keys (transcript or summary) never share a cache file or a
\* temporary file: two set / set_summary calls in progress on different keys
\* have different cache files and different temporary files, no cache file
\* of one is the temporary file of another, and a cache file holds only
\* records of the one key that names it.
C32_PathsInjective ==
    /\ \A w \in Writing :
          /\ InsideRoot(wr[w].name)
          /\ InsideRoot(TempPath(wr[w].name))
          /\ \A n \in DOMAIN committed :
                /\ TempPath(wr[w].name) # n
                /\ KeyOfDoc(committed[n]) # KeyOfWriter(w) => n # wr[w].name
    /\ \A w1, w2 \in Writing :
          KeyOfWriter(w1) # KeyOfWriter(w2)
            => /\ wr[w1].name # wr[w2].name
               /\ TempPath(wr[w1].name) # TempPath(wr[w2].name)
               /\ wr[w1].name # TempPath(wr[w2].name)
    /\ ~touched

\* Two calls in progress on summaries of one video and language that differ
\* in the length only, a transcript of that video and language being stored.
C32_Witness ==
    /\ \E w1, w2 \in Writing :
          /\ wr[w1].op = "set_summary" /\ wr[w2].op = "set_summary"
          /\ wr[w1].vid = wr[w2].vid /\ wr[w1].lang = wr[w2].lang
          /\ wr[w1].len # wr[w2].len
          /\ wr[w1].pc = "write" /\ wr[w2].pc = "write"
          /\ wr[w1].fd # wr[w2].fd

(***************************************************************************)
(* Properties of failing and completing writes                             *)
(***************************************************************************)
IsTemp(n) == n[Len(n)] = ".tmp"

\* Writer w completes its call in this step: its temporary file is renamed.
Renames(w) ==
    /\ wr[w].pc # "idle"
    /\ wr'[w].pc = "idle"
    /\ TempPath(wr[w].name) \in DOMAIN dir
    /\ TempPath(wr[w].name) \notin DOMAIN dir'

\* C33: no step of a set or set_summary call other than its completed rename
\* changes an entry, so that a call that ends on an I/O error at the
\* creation, the writing or the renaming of its temporary file leaves every
\* entry, the one of its key included, as it was (present with the same
\* content, or absent), and it returns without raising; a call that
\* completes its rename leaves exactly its own record under its key, nothing
\* of the prior record, and every other entry as it was.
C33_IOErrorKeepsEntries ==
    [][/\ (\A w \in Writers : ~Renames(w))
          => /\ {n \in DOMAIN dir' : ~IsTemp(n)} = {n \in DOMAIN dir : ~IsTemp(n)}
             /\ \A n \in DOMAIN dir :
                   ~IsTemp(n) => inodes'[dir'[n]] = inodes[dir[n]]
       /\ \A w \in Writers :
             /\ (/\ wr[w].pc # "idle"
                 /\ wr'[w].pc = "idle"
                 /\ ~Renames(w)
                 /\ lastOp'.res.kind # "interrupted")
                  => lastOp'.res = Returned
             /\ Renames(w)
                  => /\ lastOp'.res = Returned
                     /\ wr[w].name \in DOMAIN dir'
                     /\ inodes'[dir'[wr[w].name]] = Dump(wr[w].doc)
                     /\ \A n \in DOMAIN dir \ {wr[w].name} :
                           ~IsTemp(n) => /\ n \in DOMAIN dir'
                                         /\ inodes'[dir'[n]] = inodes[dir[n]]]_vars

\* A set on a stored key has ended on an I/O error after it had written a
\* different record to its temporary file: it returned, and the entry holds
\* the record stored before.
C33_Witness ==
    \E lang \in {LangEn, LangPtBR} :
        LET name == CacheFileName(VidOK, lang)
            t == TempPath(name) IN
        /\ wr[1].pc = "idle"
        /\ lastOp = Op("set", VidOK, lang, "", Returned, TRUE)
        /\ name \in DOMAIN committed
        /\ inodes[dir[name]] = Dump(committed[name])
        /\ t \in DOMAIN dir
        /\ inodes[dir[t]] # <<>>
        /\ inodes[dir[t]][1].doc # committed[name]

====
